---- MODULE Spec2Model ----
(***************************************************************************)
(* KnowYourCrowd: the game orchestrator (services/game-logic.js) and the   *)
(* score engine (services/score-calculator.js) as a state machine.         *)
(*                                                                         *)
(* Player ids are the positions 1..Len(players) of the roster, so the      *)
(* joinOrder of player i is i-1.  Connections (sockets) are numbered       *)
(* 1..MaxConns in the order in which they are opened; DisplaySock is the   *)
(* connection of the shared display.  Every handler is an operator from a  *)
(* state record to a state record, so that a handler calling another one   *)
(* (handleNextRound -> endGame -> startSuddenDeath) is modelled whole.     *)
(***************************************************************************)
EXTENDS Integers, Sequences, FiniteSets, TLC

\* ------------------------------------------------------------------ bounds
MaxPlayers == 3
MaxConns == 4
MaxRound == 1
MaxGameRound == 5
MaxStrayRound == 2
MaxTieRound == 6
MaxOverRound == 3
MaxIdleRound == 7
MaxMatches == 2
MaxRepeats == 3
MaxResults == 3
MaxPending == 1
MaxDrops == 1
MaxStrays == 1
MaxStarts == 2

\* ------------------------------------------------- configuration constants
MinPlayers == 3
Rotations == 1
NoSubmission == -3
PerfectRound == 3
MaxAnswerLength == 100

NoSock == 0
DisplaySock == 99
Stranger == 98
NoTheme == "null"
Generated == <<"g1", "g2">>
Fallback == <<"f1", "f2">>
\* the session tokens handed out at join (uuidv4), one per player,
\* <<"token", 0>> being one that was never handed out
Tokens == [i \in 1..MaxPlayers |-> <<"token", i>>]
ThemeChoices == {"g2"}
TimerNames == {"themeSelection", "answering", "matching", "roundEnd"}
MaxNameLength == 20
\* the letters that texts are written in, with their two cases
Upper == <<"A", "B">>
Lower == <<"a", "b">>
\* the codes generateRoomCode can draw (shortened to two letters), the one
\* drawn at start-up, and null
RoomCodes == {<<Upper[i], Upper[j]>> : i, j \in 1..Len(Upper)}
FirstCode == <<"A", "B">>
NoRoom == <<>>
\* a code of no room, and the name the players of a game type in
OtherCode == <<"B", "B">>
AName == <<"a">>

VARIABLES gs, conn, timers, disconnectTimers, pending, displaySocket, out, faults,
          roomManager, schedules

vars == <<gs, conn, timers, disconnectTimers, pending, displaySocket, out, faults,
          roomManager, schedules>>

\* ----------------------------------------------------------------- helpers
Range(s) == {s[i] : i \in 1..Len(s)}

AllIds(ps) == [i \in 1..Len(ps) |-> i]

\* players.filter(p => !p.isHost), as ids in roster order
NonHostIds(ps) == SelectSeq(AllIds(ps), LAMBDA i : ~ps[i].isHost)

\* players.filter(p => p.isTiedPlayer), as ids in roster order
TiedIds(ps) == SelectSeq(AllIds(ps), LAMBDA i : ps[i].isTiedPlayer)

MaxScore(ps) == CHOOSE m \in {ps[i].score : i \in 1..Len(ps)} :
                  \A i \in 1..Len(ps) : ps[i].score <= m

\* ids holding the score m, in roster order (a stable descending sort keeps
\* equal scores in roster order)
IdsWithScore(ps, ids, m) == SelectSeq(ids, LAMBDA i : ps[i].score = m)

MaxScoreOf(ps, ids) == CHOOSE m \in {ps[ids[k]].score : k \in 1..Len(ids)} :
                         \A k \in 1..Len(ids) : ps[ids[k]].score <= m

\* ------------------------------------------------------------ initial state
createInitialState ==
  [ players |-> <<>>,
    currentRound |-> 0,
    totalRounds |-> 0,
    phase |-> "lobby",
    currentHostIndex |-> 0,
    \* the id of the player object that currentHost refers to, 0 for null
    currentHost |-> 0,
    selectedTheme |-> NoTheme,
    themes |-> <<>>,
    answers |-> <<>>,
    matches |-> <<>>,
    roundResults |-> <<>>,
    revealIndex |-> 0,
    isSuddenDeath |-> FALSE,
    suddenDeathRound |-> 0,
    tiedPlayerIds |-> {},
    tiedPlayerHostIndex |-> 0,
    hasMatchingAnswers |-> FALSE,
    matchingAnswers |-> <<>> ]

\* the schedules that are not named phase timers
NoPending == [reveal |-> 0, suddenDeath |-> 0, provider |-> 0]

\* what the orchestrator has emitted that the claims talk about
NoOut == [gameOver |-> FALSE, winner |-> 0, scoreboard |-> <<>>, wasSuddenDeath |-> FALSE,
          suddenDeathRounds |-> 0, uncaught |-> FALSE, sentAnswers |-> <<>>,
          sentPlayers |-> <<>>, started |-> 0,
          \* <<socket, id>>: the session token of player id was sent to socket
          tokens |-> {}]

\* The whole state as one record, threaded through the handlers
St == [g |-> gs, t |-> timers, d |-> disconnectTimers, p |-> pending, o |-> out,
       r |-> roomManager, e |-> schedules, ds |-> displaySocket]

Set(s) ==
  /\ gs' = s.g
  /\ timers' = s.t
  /\ disconnectTimers' = s.d
  /\ pending' = s.p
  /\ out' = s.o
  /\ roomManager' = s.r
  /\ schedules' = s.e

\* ------------------------------------------------------------ score engine
\* calculateRoundResults keeping the matches of unknown players
RECURSIVE calculateRoundResults_KeepsStrangers(_, _, _)
calculateRoundResults_KeepsStrangers(matches, shuffledAnswers, ps) ==
  IF matches = <<>> THEN <<>>
  ELSE LET match == Head(matches)
           hasActual == match.answerIndex \in 0..(Len(shuffledAnswers) - 1)
           actualAnswer == shuffledAnswers[match.answerIndex + 1]
       IN (IF hasActual
           THEN << [guessedPlayerId |-> match.playerId,
                    actualPlayerId |-> actualAnswer.playerId,
                    isCorrect |-> (match.playerId = actualAnswer.playerId)] >>
           ELSE <<>>)
          \o calculateRoundResults_KeepsStrangers(Tail(matches), shuffledAnswers, ps)

\* calculateRoundResults: one result per match whose answerIndex is a
\* position of shuffledAnswers (0-based) and whose playerId is in the roster
RECURSIVE calculateRoundResults(_, _, _)
calculateRoundResults(matches, shuffledAnswers, ps) ==
  IF matches = <<>> THEN <<>>
  ELSE LET match == Head(matches)
           hasGuessed == match.playerId \in 1..Len(ps)
           hasActual == match.answerIndex \in 0..(Len(shuffledAnswers) - 1)
           actualAnswer == shuffledAnswers[match.answerIndex + 1]
       IN (IF hasActual /\ hasGuessed
           THEN << [guessedPlayerId |-> match.playerId,
                    actualPlayerId |-> actualAnswer.playerId,
                    isCorrect |-> (match.playerId = actualAnswer.playerId)] >>
           ELSE <<>>)
          \o calculateRoundResults(Tail(matches), shuffledAnswers, ps)

\* calculateHostScore without the totalMatches > 0 test
calculateHostScore_EmptyPerfect(results, perfectBonus) ==
  LET correctMatches == Len(SelectSeq(results, LAMBDA r : r.isCorrect))
      totalMatches == Len(results)
      isPerfect == correctMatches = totalMatches
  IN [score |-> IF isPerfect THEN correctMatches + perfectBonus
                ELSE correctMatches,
      correctMatches |-> correctMatches,
      totalMatches |-> totalMatches,
      isPerfect |-> isPerfect]

calculateHostScore(results, perfectBonus) ==
  LET correctMatches == Len(SelectSeq(results, LAMBDA r : r.isCorrect))
      totalMatches == Len(results)
      isPerfect == correctMatches = totalMatches /\ totalMatches > 0
  IN [score |-> IF isPerfect THEN correctMatches + perfectBonus
                ELSE correctMatches,
      correctMatches |-> correctMatches,
      totalMatches |-> totalMatches,
      isPerfect |-> isPerfect]

\* ------------------------------------------------------------------ timers
\* this.timers holds, for a timer name, the handles of its setTimeout and
\* of its setInterval, set together and deleted together; s.t is the set of
\* the names that have them.  s.e counts, for each name, the schedules of the
\* event loop that are live: the expiries (timeout) and the ticks (interval)
NoSchedules ==
  [timeout |-> [timerName \in TimerNames |-> 0],
   interval |-> [timerName \in TimerNames |-> 0]]

\* clearTimeout or clearInterval of a handle; it does nothing to a schedule
\* that is gone
Cancel(n) == IF n > 0 THEN n - 1 ELSE 0

clearTimer(s, timerName) ==
  IF timerName \in s.t
  THEN [s EXCEPT !.t = @ \ {timerName},
                 !.e.timeout[timerName] = Cancel(@),
                 !.e.interval[timerName] = Cancel(@)]
  ELSE s

\* startTimer without its clearTimer
startTimer_NoClear(s, timerName) ==
  [s EXCEPT !.t = @ \cup {timerName},
            !.e.timeout[timerName] = @ + 1,
            !.e.interval[timerName] = @ + 1]

\* clears the timer of that name, then schedules tick and expiry
startTimer(s, timerName) ==
  [clearTimer(s, timerName) EXCEPT !.t = @ \cup {timerName},
                                   !.e.timeout[timerName] = @ + 1,
                                   !.e.interval[timerName] = @ + 1]

\* an exception that nothing catches: the handler stops where it is
Throw(s) == [s EXCEPT !.o.uncaught = TRUE]

\* -------------------------------------------------------------- orchestrator
\* the players whose whole object, sessionToken included, is in the value of
\* getGameState(): the spread of gameState carries currentHost; the list
\* players is rebuilt without the tokens
TokensIn(g) == IF g.currentHost = 0 THEN {} ELSE {g.currentHost}

\* an event that carries the whole objects of the players ids is sent to socket
Emit(s, socket, ids) == [s EXCEPT !.o.tokens = @ \cup {<<socket, id>> : id \in ids}]

\* if (this.displaySocket) this.displaySocket.emit('game_state', getGameState())
UpdateDisplay(s) == IF s.ds = NoSock THEN s ELSE Emit(s, s.ds, TokensIn(s.g))

\* 0 stands for null
getCurrentHost(g) ==
  IF Len(g.players) = 0 THEN 0
  ELSE (g.currentHostIndex % Len(g.players)) + 1

\* the synchronous part of startThemeSelection, up to the await of the
\* theme provider; ProviderDone is its continuation
startThemeSelection(s) ==
  LET s1 == [s EXCEPT !.g.phase = "theme_select",
                      !.g.selectedTheme = NoTheme,
                      !.g.answers = <<>>,
                      !.g.matches = <<>>,
                      !.g.roundResults = <<>>]
      host == getCurrentHost(s1.g)
  IN IF host = 0 THEN Throw(s1)
     ELSE UpdateDisplay(
            [s1 EXCEPT !.g.currentHost = host,
                       !.g.players = [i \in 1..Len(@) |-> [@[i] EXCEPT !.isHost = (i = host)]],
                       !.p.provider = @ + 1])

startAnsweringPhase(s) ==
  startTimer([s EXCEPT !.g.phase = "answering", !.g.answers = <<>>], "answering")

selectTheme(s, theme) ==
  startAnsweringPhase([clearTimer(s, "themeSelection") EXCEPT !.g.selectedTheme = theme])

\* ------------------------------------------------------------ answer texts
\* a text is a sequence of characters, " " standing for any whitespace
Rep(ch, n) == [i \in 1..n |-> ch]
NoAnswer == <<"[", "N", "o", " ", "A", "n", "s", "w", "e", "r", "]">>

\* String.prototype.trim cutting at the end only
RECURSIVE trim_EndOnly(_)
trim_EndOnly(text) ==
  IF text # <<>> /\ text[Len(text)] = " " THEN trim_EndOnly(SubSeq(text, 1, Len(text) - 1))
  ELSE text

\* String.prototype.trim
RECURSIVE trim(_)
trim(text) ==
  IF text # <<>> /\ text[1] = " " THEN trim(Tail(text))
  ELSE IF text # <<>> /\ text[Len(text)] = " " THEN trim(SubSeq(text, 1, Len(text) - 1))
  ELSE text

\* String.prototype.substring(from, to), 0 <= from <= to
substring(text, from, to) ==
  SubSeq(text, from + 1, IF to < Len(text) THEN to ELSE Len(text))

\* String.prototype.toUpperCase and toLowerCase
Cased(text, from, to) ==
  [i \in 1..Len(text) |->
     IF \E k \in 1..Len(from) : from[k] = text[i]
     THEN to[CHOOSE k \in 1..Len(from) : from[k] = text[i]]
     ELSE text[i]]
toUpperCase(text) == Cased(text, Lower, Upper)
toLowerCase(text) == Cased(text, Upper, Lower)

\* `${n}` of a natural number
Digits == <<"0", "1", "2", "3", "4", "5", "6", "7", "8", "9">>
RECURSIVE toString(_)
toString(n) ==
  IF n < 10 THEN <<Digits[n + 1]>>
  ELSE toString(n \div 10) \o <<Digits[(n % 10) + 1]>>

\* ------------------------------------------------------------- room manager
\* rooms maps a code to the status of its room, "none" for a code not in the
\* map; currentRoom is the code of the current room, or null
NoRooms == [currentRoom |-> NoRoom, rooms |-> [code \in RoomCodes |-> "none"]]

\* the codes generateRoomCode can return
generateRoomCode(rm) == {code \in RoomCodes : rm.rooms[code] = "none"}

\* createRoom, roomCode being what generateRoomCode returned
createRoom(rm, roomCode) ==
  [currentRoom |-> roomCode, rooms |-> [rm.rooms EXCEPT ![roomCode] = "active"]]

getCurrentRoomCode(rm) == rm.currentRoom

validateRoom(rm, code) ==
  IF code = <<>> THEN FALSE
  ELSE LET normalizedCode == trim(toUpperCase(code))
       IN \/ rm.currentRoom # NoRoom /\ rm.currentRoom = normalizedCode
          \/ normalizedCode \in RoomCodes /\ rm.rooms[normalizedCode] # "none"

closeRoom(rm, code) ==
  IF code \in RoomCodes /\ rm.rooms[code] # "none"
  THEN [currentRoom |-> IF rm.currentRoom = code THEN NoRoom ELSE rm.currentRoom,
        rooms |-> [rm.rooms EXCEPT ![code] = "closed"]]
  ELSE rm

\* [...answers].sort(() => Math.random() - 0.5): some permutation of the
\* answers; rank (a bijection on the positions) is the random outcome, and
\* a rank that does not fit the list leaves it in place
Shuffle(answers, rank) ==
  IF DOMAIN rank = 1..Len(answers) THEN [k \in 1..Len(answers) |-> answers[rank[k]]]
  ELSE answers

startMatchingPhase(s, rank) ==
  LET shuffledAnswers == [k \in 1..Len(s.g.answers) |->
                            [answer |-> Shuffle(s.g.answers, rank)[k].answer,
                             playerId |-> Shuffle(s.g.answers, rank)[k].playerId]]
  IN startTimer([s EXCEPT !.g.phase = "matching",
                          !.g.hasMatchingAnswers = TRUE,
                          !.g.matchingAnswers = shuffledAnswers,
                          !.o.sentAnswers = shuffledAnswers,
                          !.o.sentPlayers = NonHostIds(s.g.players)], "matching")

HasSubmitted(answers, pid) == \E k \in 1..Len(answers) : answers[k].playerId = pid

\* the penalty loop without the hasSubmitted test
RECURSIVE ApplyPenalties_Everyone(_, _)
ApplyPenalties_Everyone(g, ids) ==
  IF ids = <<>> THEN g
  ELSE LET pid == Head(ids)
           g1 == [g EXCEPT !.players[pid].score = @ + NoSubmission,
                           !.answers = IF HasSubmitted(g.answers, pid) THEN @
                                       ELSE Append(@, [playerId |-> pid, answer |-> NoAnswer,
                                                       penalty |-> TRUE])]
       IN ApplyPenalties_Everyone(g1, Tail(ids))

\* the forEach of endAnsweringPhase over the non-host players
RECURSIVE ApplyPenalties(_, _)
ApplyPenalties(g, ids) ==
  IF ids = <<>> THEN g
  ELSE LET pid == Head(ids)
           g1 == IF HasSubmitted(g.answers, pid) THEN g
                 ELSE [g EXCEPT !.players[pid].score = @ + NoSubmission,
                                !.answers = Append(@, [playerId |-> pid, answer |-> NoAnswer,
                                                       penalty |-> TRUE])]
       IN ApplyPenalties(g1, Tail(ids))

endAnsweringPhase(s, rank) ==
  startMatchingPhase([s EXCEPT !.g = ApplyPenalties(s.g, NonHostIds(s.g.players))], rank)

\* submit_answer from the socket bound to player pid (0: to none)
handleAnswerSubmit(s, pid, text, rank) ==
  IF \/ pid = 0
     \/ s.g.phase # "answering"
     \/ s.g.players[pid].isHost
     \/ HasSubmitted(s.g.answers, pid)
  THEN s
  ELSE LET answer == substring(trim(text), 0, MaxAnswerLength)
       IN IF answer = <<>> THEN s
          ELSE LET s1 == [s EXCEPT !.g.answers = Append(@, [playerId |-> pid, answer |-> answer,
                                                            penalty |-> FALSE])]
               IN IF Len(s1.g.answers) >= Len(NonHostIds(s1.g.players))
                  THEN endAnsweringPhase(clearTimer(s1, "answering"), rank)
                  ELSE s1

startRevealPhase(s) ==
  LET results == calculateRoundResults(s.g.matches,
                   IF s.g.hasMatchingAnswers THEN s.g.matchingAnswers ELSE s.g.answers,
                   s.g.players)
      hostScoreResult == calculateHostScore(results, PerfectRound)
      host == getCurrentHost(s.g)
  IN [s EXCEPT !.g.phase = "reveal",
               !.g.revealIndex = 0,
               !.g.roundResults = results,
               !.g.players[host].score = @ + hostScoreResult.score,
               !.p.reveal = @ + 1]

\* the fallback guessing the first shuffled answer for everybody
autoSubmitMatches_AllFirst(s) ==
  startRevealPhase([s EXCEPT !.g.matches =
    [k \in 1..Len(NonHostIds(s.g.players)) |->
       [playerId |-> NonHostIds(s.g.players)[k], answerIndex |-> 0]]])

autoSubmitMatches(s) ==
  LET players == NonHostIds(s.g.players)
      n == Len(s.g.answers)
  IN startRevealPhase([s EXCEPT !.g.matches =
       [k \in 1..Len(players) |->
          [playerId |-> players[k],
           \* index % 0 is NaN, which is no position of any array
           answerIndex |-> IF n = 0 THEN 0 - 1 ELSE (k - 1) % n]]])

startRoundEnd(s) == startTimer([s EXCEPT !.g.phase = "round_end"], "roundEnd")

revealNextMatch(s) ==
  IF s.g.revealIndex >= Len(s.g.roundResults) THEN startRoundEnd(s)
  ELSE [s EXCEPT !.g.revealIndex = @ + 1, !.p.reveal = @ + 1]

startSuddenDeath(s, tiedPlayers) ==
  LET tiedPlayerIds == Range(tiedPlayers)
      ps == [i \in 1..Len(s.g.players) |->
               [s.g.players[i] EXCEPT !.isTiedPlayer = (i \in tiedPlayerIds)]]
      first == CHOOSE i \in 1..Len(ps) : ps[i].isTiedPlayer /\ \A j \in 1..(i - 1) : ~ps[j].isTiedPlayer
  IN [s EXCEPT !.g.isSuddenDeath = TRUE,
               !.g.suddenDeathRound = 0,
               !.g.phase = "sudden_death",
               !.g.tiedPlayerIds = tiedPlayerIds,
               !.g.players = ps,
               !.g.currentHostIndex = first - 1,
               !.g.tiedPlayerHostIndex = 0,
               !.p.suddenDeath = @ + 1]
\* endGame without the tie check: the head of the scoreboard always wins
endGame_NoTieCheck(s) ==
  IF Len(s.g.players) = 0 THEN Throw(s)
  ELSE
  LET ps == s.g.players
      highestScore == MaxScore(ps)
      tiedPlayers == IdsWithScore(ps, AllIds(ps), highestScore)
  IN [s EXCEPT !.g.phase = "game_over",
               !.o.gameOver = TRUE,
               !.o.winner = tiedPlayers[1],
               !.o.wasSuddenDeath = s.g.isSuddenDeath,
               !.o.suddenDeathRounds = s.g.suddenDeathRound]

\* players.map(p => ({id, name, score}))
Board(ps) == [i \in 1..Len(ps) |-> [id |-> i, score |-> ps[i].score]]

\* the entry e put behind the entries of board that do not score less
Insert(board, e) ==
  LET before == SelectSeq(board, LAMBDA b : b.score >= e.score)
      after == SelectSeq(board, LAMBDA b : b.score < e.score)
  IN before \o <<e>> \o after

\* sort((a, b) => a.score - b.score): ascending
RECURSIVE sortByScore_Ascending(_)
sortByScore_Ascending(board) ==
  IF board = <<>> THEN <<>>
  ELSE LET rest == sortByScore_Ascending(SubSeq(board, 1, Len(board) - 1))
           e == board[Len(board)]
       IN SelectSeq(rest, LAMBDA b : b.score <= e.score) \o <<e>>
            \o SelectSeq(rest, LAMBDA b : b.score > e.score)

\* sort((a, b) => b.score - a.score): descending, equal scores staying in
\* their order (Array.prototype.sort is stable)
RECURSIVE sortByScore(_)
sortByScore(board) ==
  IF board = <<>> THEN <<>>
  ELSE Insert(sortByScore(SubSeq(board, 1, Len(board) - 1)), board[Len(board)])

endGame(s) ==
  IF Len(s.g.players) = 0 THEN Throw(s)
  ELSE
  LET scoreboard == sortByScore(Board(s.g.players))
      highestScore == scoreboard[1].score
      filtered == SelectSeq(scoreboard, LAMBDA p : p.score = highestScore)
      tiedPlayers == [k \in 1..Len(filtered) |-> filtered[k].id]
  IN IF Len(tiedPlayers) > 1 /\ ~s.g.isSuddenDeath
     THEN startSuddenDeath(s, tiedPlayers)
     ELSE [s EXCEPT !.g.phase = "game_over",
                    !.o.gameOver = TRUE,
                    !.o.winner = scoreboard[1].id,
                    !.o.scoreboard = scoreboard,
                    !.o.wasSuddenDeath = s.g.isSuddenDeath,
                    !.o.suddenDeathRounds = s.g.suddenDeathRound]
\* handleNextRound ending the game after every full sudden-death round,
\* whether or not the tie is broken
handleNextRound_EndsWhenFull(s) ==
  LET s0 == clearTimer(s, "roundEnd")
  IN IF s0.g.isSuddenDeath
     THEN LET s1 == [s0 EXCEPT !.g.tiedPlayerHostIndex = @ + 1]
              tiedPlayersList == TiedIds(s1.g.players)
              full == s1.g.tiedPlayerHostIndex >= Len(tiedPlayersList)
              s2 == IF full THEN [s1 EXCEPT !.g.suddenDeathRound = @ + 1,
                                            !.g.tiedPlayerHostIndex = 0]
                    ELSE s1
          IN IF full THEN endGame(s2)
             ELSE startThemeSelection(
                    [s2 EXCEPT !.g.currentHostIndex = tiedPlayersList[s2.g.tiedPlayerHostIndex + 1] - 1,
                               !.g.currentRound = @ + 1])
     ELSE IF s0.g.currentRound >= s0.g.totalRounds THEN endGame(s0)
     ELSE startThemeSelection(
            [s0 EXCEPT !.g.currentHostIndex = (@ + 1) % Len(s0.g.players),
                       !.g.currentRound = @ + 1])

handleNextRound(s) ==
  LET s0 == clearTimer(s, "roundEnd")
  IN IF s0.g.isSuddenDeath
     THEN LET s1 == [s0 EXCEPT !.g.tiedPlayerHostIndex = @ + 1]
              tiedPlayersList == TiedIds(s1.g.players)
              full == s1.g.tiedPlayerHostIndex >= Len(tiedPlayersList)
              s2 == IF full THEN [s1 EXCEPT !.g.suddenDeathRound = @ + 1,
                                            !.g.tiedPlayerHostIndex = 0]
                    ELSE s1
              highestScore == MaxScoreOf(s2.g.players, tiedPlayersList)
              stillTied == IdsWithScore(s2.g.players, tiedPlayersList, highestScore)
          IN IF full /\ Len(stillTied) = 1 THEN endGame(s2)
             \* log(...) is not defined in game-logic.js: ReferenceError
             ELSE IF full THEN Throw(s2)
             ELSE startThemeSelection(
                    [s2 EXCEPT !.g.currentHostIndex = tiedPlayersList[s2.g.tiedPlayerHostIndex + 1] - 1,
                               !.g.currentRound = @ + 1])
     ELSE IF s0.g.currentRound >= s0.g.totalRounds THEN endGame(s0)
     ELSE startThemeSelection(
            [s0 EXCEPT !.g.currentHostIndex = (@ + 1) % Len(s0.g.players),
                       !.g.currentRound = @ + 1])

\* handlePlayAgain leaving the scores
handlePlayAgain_KeepsScores(s) ==
  UpdateDisplay(
  [s EXCEPT !.g = [createInitialState EXCEPT !.players =
                     [i \in 1..Len(s.g.players) |->
                        [s.g.players[i] EXCEPT !.isHost = (s.g.players[i].joinOrder = 0)]],
                     !.currentHost = IF Len(s.g.players) > 0 THEN 1 ELSE 0],
            !.o.gameOver = FALSE, !.o.winner = 0, !.o.scoreboard = <<>>,
            !.o.wasSuddenDeath = FALSE, !.o.suddenDeathRounds = 0])

handlePlayAgain(s) ==
  UpdateDisplay(
  [s EXCEPT !.g = [createInitialState EXCEPT !.players =
                     [i \in 1..Len(s.g.players) |->
                        [s.g.players[i] EXCEPT !.score = 0, !.isHost = (s.g.players[i].joinOrder = 0)]],
                     \* players[0]
                     !.currentHost = IF Len(s.g.players) > 0 THEN 1 ELSE 0],
            \* game_reset replaces the game_over screen
            !.o.gameOver = FALSE, !.o.winner = 0, !.o.scoreboard = <<>>,
            !.o.wasSuddenDeath = FALSE, !.o.suddenDeathRounds = 0])

\* the body of handleStartGame and handleDisplayStartGame after their checks
InitializeGame(s) ==
  startThemeSelection([s EXCEPT !.g.totalRounds = Len(s.g.players) * Rotations,
                                !.g.currentRound = 1,
                                \* game_started is broadcast
                                !.o.started = @ + 1])

\* the answer to start_game from the socket bound to player pid (0: to none)
StartGameReply(g, pid) ==
  IF pid = 0 \/ ~g.players[pid].isHost \/ Len(g.players) < MinPlayers
  THEN "error" ELSE "game_started"

\* handleStartGame without the minimum of players
handleStartGame_NoMinimum(s, pid) ==
  IF pid = 0 \/ ~s.g.players[pid].isHost THEN s ELSE InitializeGame(s)

handleStartGame(s, pid) ==
  IF StartGameReply(s.g, pid) = "error" THEN s ELSE InitializeGame(s)

\* the answer to display_start_game from socket c, display being the
\* socket of the display
DisplayStartGameReply(g, display, c) ==
  IF c # display \/ Len(g.players) < MinPlayers THEN "error" ELSE "game_started"

handleDisplayStartGame(s, display, c) ==
  IF DisplayStartGameReply(s.g, display, c) = "error" THEN s ELSE InitializeGame(s)

\* the answer to host_select_theme from the socket bound to player pid
ThemeSelectReply(g, pid) ==
  IF pid = 0 \/ ~g.players[pid].isHost \/ g.phase # "theme_select"
  THEN "error" ELSE "theme_selected"

\* handleThemeSelect open to every player
handleThemeSelect_AnyPlayer(s, pid, theme) ==
  IF pid = 0 \/ s.g.phase # "theme_select" THEN s ELSE selectTheme(s, theme)

handleThemeSelect(s, pid, theme) ==
  IF ThemeSelectReply(s.g, pid) = "error" THEN s ELSE selectTheme(s, theme)

\* players.find(p => p.id === socket.playerId); 0 when there is none
PlayerOf(c) == IF c \in 1..MaxConns THEN conn[c].playerId ELSE 0

\* players.find(p => p.socketId === socket.id); 0 when there is none
PlayerBoundTo(ps, c) ==
  IF \E i \in 1..Len(ps) : ps[i].socketId = c
  THEN CHOOSE i \in 1..Len(ps) : ps[i].socketId = c /\ \A j \in 1..(i - 1) : ps[j].socketId # c
  ELSE 0
\* handleDisconnect taking the host flag from a player who disconnects
handleDisconnect_DropsHost(s, c) ==
  LET pid == PlayerBoundTo(s.g.players, c)
  IN IF pid = 0 THEN s
     ELSE LET s1 == [s EXCEPT !.g.players[pid].isConnected = FALSE,
                              !.g.players[pid].isHost = FALSE]
          IN IF s.g.players[pid].isHost /\ s1.g.phase \in {"theme_select", "matching"}
             THEN [s1 EXCEPT !.d = @ \cup {pid}]
             ELSE s1

handleDisconnect(s, c) ==
  LET pid == PlayerBoundTo(s.g.players, c)
  IN IF pid = 0 THEN s
     ELSE LET s1 == [s EXCEPT !.g.players[pid].isConnected = FALSE]
          IN IF s1.g.players[pid].isHost /\ s1.g.phase \in {"theme_select", "matching"}
             THEN [s1 EXCEPT !.d = @ \cup {pid}]
             ELSE s1

\* the grace period callback advancing theme_select only
graceExpired_ThemeOnly(s, pid) ==
  LET s1 == [s EXCEPT !.d = @ \ {pid}]
  IN IF ~s.g.players[pid].isConnected /\ s.g.phase = "theme_select"
     THEN selectTheme(s1, IF s.g.themes # <<>> THEN s.g.themes[1] ELSE Fallback[1])
     ELSE s1

\* the callback of the grace period timer of player pid
graceExpired(s, pid) ==
  LET s1 == [s EXCEPT !.d = @ \ {pid}]
  IN IF ~s.g.players[pid].isConnected
     THEN IF s.g.phase = "theme_select"
          THEN selectTheme(s1, IF s.g.themes # <<>> THEN s.g.themes[1] ELSE Fallback[1])
          ELSE IF s.g.phase = "matching" THEN autoSubmitMatches(s1)
          ELSE s1
     ELSE s1

\* a lookup that trusts the player id alone
findBySession_IdOnly(g, playerId, sessionToken) ==
  IF playerId \in 1..Len(g.players) THEN playerId ELSE 0

\* players.find(p => p.id === playerId && p.sessionToken === sessionToken),
\* 0 for undefined
findBySession(g, playerId, sessionToken) ==
  IF \E i \in 1..Len(g.players) : i = playerId /\ g.players[i].sessionToken = sessionToken
  THEN playerId
  ELSE 0

\* the answer to reconnect_player
ReconnectReply(g, playerId, sessionToken) ==
  IF findBySession(g, playerId, sessionToken) # 0 THEN "reconnected" ELSE "reconnect_failed"

\* a matching payload built from the answers in submission order
ReconnectPayload_Unshuffled(g) ==
  [answers |-> [k \in 1..Len(g.answers) |->
                  [answer |-> g.answers[k].answer, playerId |-> g.answers[k].playerId]],
   players |-> NonHostIds(g.players)]

\* the matching_phase_start payload for a host who reconnects in matching
ReconnectPayload(g) ==
  [answers |-> IF g.hasMatchingAnswers THEN g.matchingAnswers ELSE <<>>,
   players |-> NonHostIds(g.players)]

\* a reconnect that leaves the player bound to the old socket
handleReconnect_KeepsSocket(s, c, playerId, sessionToken) ==
  LET pid == findBySession(s.g, playerId, sessionToken)
  IN IF pid # 0
     THEN UpdateDisplay(Emit([s EXCEPT !.d = @ \ {pid},
                                       !.g.players[pid].isConnected = TRUE],
                             c, {pid} \cup TokensIn(s.g)))
     ELSE s

\* a reconnect that leaves the grace period timer running
handleReconnect_KeepsTimer(s, c, playerId, sessionToken) ==
  LET pid == findBySession(s.g, playerId, sessionToken)
  IN IF pid # 0
     THEN UpdateDisplay(Emit([s EXCEPT !.g.players[pid].isConnected = TRUE,
                                       !.g.players[pid].socketId = c],
                             c, {pid} \cup TokensIn(s.g)))
     ELSE s

handleReconnect(s, c, playerId, sessionToken) ==
  LET pid == findBySession(s.g, playerId, sessionToken)
  IN IF pid # 0
     \* reconnected carries player and gameState: getGameState()
     THEN UpdateDisplay(Emit([s EXCEPT !.d = @ \ {pid},
                                       !.g.players[pid].isConnected = TRUE,
                                       !.g.players[pid].socketId = c],
                             c, {pid} \cup TokensIn(s.g)))
     ELSE s

\* ------------------------------------------------------------------ joining
\* existingNames (line 142)
existingNames(ps) == {toLowerCase(ps[i].name) : i \in 1..Len(ps)}

\* the name that counter stands for in the loop of lines 146-149
Numbered(baseName, nameCounter) ==
  IF nameCounter = 1 THEN baseName
  ELSE baseName \o <<"(">> \o toString(nameCounter) \o <<")">>

\* the loop comparing the names as they are written
RECURSIVE uniqueName_CaseSensitive(_, _, _)
uniqueName_CaseSensitive(ps, baseName, nameCounter) ==
  IF Numbered(baseName, nameCounter) \in {ps[i].name : i \in 1..Len(ps)}
  THEN uniqueName_CaseSensitive(ps, baseName, nameCounter + 1)
  ELSE Numbered(baseName, nameCounter)

\* playerName after the loop of lines 146-149 entered with nameCounter
RECURSIVE uniqueName(_, _, _)
uniqueName(ps, baseName, nameCounter) ==
  IF toLowerCase(Numbered(baseName, nameCounter)) \in existingNames(ps)
  THEN uniqueName(ps, baseName, nameCounter + 1)
  ELSE Numbered(baseName, nameCounter)

\* the answer to join_room
JoinReply(s, roomCode) ==
  IF ~validateRoom(s.r, roomCode)
  THEN [event |-> "join_error", message |-> "Invalid room code"]
  ELSE IF s.g.phase # "lobby"
  THEN [event |-> "join_error", message |-> "Game already in progress"]
  ELSE IF Len(s.g.players) >= MaxPlayers
  THEN [event |-> "join_error", message |-> "Room is full"]
  ELSE [event |-> "room_joined", message |-> ""]

\* the player created at lines 152-161 for the socket c
NewPlayer(ps, c, name) ==
  [name |-> uniqueName(ps, substring(trim(name), 0, MaxNameLength), 1),
   score |-> 0, isHost |-> (Len(ps) = 0), isConnected |-> TRUE,
   isTiedPlayer |-> FALSE, socketId |-> c, joinOrder |-> Len(ps),
   sessionToken |-> <<"token", Len(ps) + 1>>]

\* the rest of handlePlayerJoin once the player is in the roster: the first
\* player becomes currentHost, room_joined carries the player to the socket
Joined(s, c) ==
  LET id == Len(s.g.players)
  IN UpdateDisplay(Emit([s EXCEPT !.g.currentHost = IF id = 1 THEN 1 ELSE @], c, {id}))

\* handlePlayerJoin letting players into a full room
handlePlayerJoin_NoLimit(s, c, name, roomCode) ==
  IF ~validateRoom(s.r, roomCode) \/ s.g.phase # "lobby" THEN s
  ELSE Joined([s EXCEPT !.g.players = Append(@, NewPlayer(@, c, name))], c)

handlePlayerJoin(s, c, name, roomCode) ==
  IF JoinReply(s, roomCode).event = "join_error" THEN s
  ELSE Joined([s EXCEPT !.g.players = Append(@, NewPlayer(@, c, name))], c)

\* join_as_host_phone: host_confirmed carries player and getGameState()
handleHostPhoneJoin(s, c, playerId) ==
  IF playerId \in 1..Len(s.g.players) /\ s.g.players[playerId].isHost
  THEN Emit(s, c, {playerId} \cup TokensIn(s.g))
  ELSE s

\* the state after construction and start-up (server.js creates the room)
Init ==
  /\ gs = createInitialState
  /\ conn = [c \in 1..MaxConns |-> [state |-> "new", playerId |-> 0]]
  /\ timers = {}
  /\ disconnectTimers = {}
  /\ pending = NoPending
  /\ displaySocket = NoSock
  /\ out = NoOut
  /\ faults = [drops |-> 0, strays |-> 0]
  /\ roomManager = createRoom(NoRooms, FirstCode)
  /\ schedules = NoSchedules

\* ------------------------------------------------------------------ actions
\* A connection is new (not yet opened), open, lost (the client is gone and
\* the transport has not reported it yet) or closed
Open == {c \in 1..MaxConns : conn[c].state = "open"}
\* Stranger is an open connection that never joined; DisplaySock the display
Senders == Open \cup {Stranger}
HasNew == \E c \in 1..MaxConns : conn[c].state = "new"
NewConn == CHOOSE c \in 1..MaxConns : conn[c].state = "new" /\ \A b \in 1..(c - 1) : conn[b].state # "new"

\* the bounds on the counters the code leaves unbounded
Within(s) ==
  /\ s.p.reveal <= MaxPending
  /\ s.p.suddenDeath <= MaxPending
  /\ s.p.provider <= MaxPending
  /\ s.o.started <= MaxStarts

\* s is worked out once, then checked and stored
Do(s) == \E next \in {s} : Within(next) /\ Set(next)

Same == UNCHANGED <<gs, timers, disconnectTimers, pending, out, roomManager, schedules>>

\* The environment.  A stray command is one that a client sends in a phase
\* in which its screen does not offer it; a behaviour has at most maxStrays
\* of them and at most MaxDrops lost connections
Stray(isStray, maxStrays) ==
  IF isStray
  THEN faults.strays < maxStrays /\ faults' = [faults EXCEPT !.strays = @ + 1]
  ELSE faults' = faults

\* join_as_display
DisplayJoin ==
  /\ displaySocket' = DisplaySock
  /\ Do(Emit(St, DisplaySock, TokensIn(gs)))
  /\ UNCHANGED <<conn, faults>>

\* join_as_host_phone
HostPhoneJoin(c, playerId) ==
  /\ c \in Senders
  /\ Do(handleHostPhoneJoin(St, c, playerId))
  /\ UNCHANGED <<conn, displaySocket, faults>>

\* join_room from a fresh connection; a rejected one leaves the connection
\* without a player (Stranger)
PlayerJoin(name, roomCode) ==
  /\ HasNew
  /\ Do(handlePlayerJoin(St, NewConn, name, roomCode))
  /\ conn' = IF JoinReply(St, roomCode).event = "join_error" THEN conn
             ELSE [conn EXCEPT ![NewConn] = [state |-> "open",
                                             playerId |-> Len(gs.players) + 1]]
  /\ UNCHANGED <<displaySocket, faults>>

\* start_game
StartGame(c, maxStrays) ==
  /\ c \in Senders
  /\ Do(handleStartGame(St, PlayerOf(c)))
  /\ IF StartGameReply(gs, PlayerOf(c)) = "error"
     THEN UNCHANGED faults
     ELSE Stray(gs.phase # "lobby", maxStrays)
  /\ UNCHANGED <<conn, displaySocket>>

\* display_start_game
DisplayStartGame(c, maxStrays) ==
  /\ Do(handleDisplayStartGame(St, displaySocket, c))
  /\ IF DisplayStartGameReply(gs, displaySocket, c) = "error"
     THEN UNCHANGED faults
     ELSE Stray(gs.phase # "lobby", maxStrays)
  /\ UNCHANGED <<conn, displaySocket>>

\* the theme provider call of startThemeSelection resolves (ok) or fails
ProviderDone(ok) ==
  /\ pending.provider > 0
  /\ Do(startTimer([St EXCEPT !.g.themes = IF ok THEN Generated ELSE Fallback,
                              !.p.provider = @ - 1], "themeSelection"))
  /\ UNCHANGED <<conn, displaySocket, faults>>

\* host_select_theme
ThemeSelect(c, theme) ==
  /\ c \in Senders
  /\ Do(handleThemeSelect(St, PlayerOf(c), theme))
  /\ UNCHANGED <<conn, displaySocket, faults>>

\* submit_answer; empty is the text after trim() being ''
AnswerSubmit(c, text, rank) ==
  /\ c \in Senders
  /\ Do(handleAnswerSubmit(St, PlayerOf(c), text, rank))
  /\ UNCHANGED <<conn, displaySocket, faults>>

\* host_submit_matches
MatchesSubmit(c, m) ==
  /\ c \in Senders
  /\ LET pid == PlayerOf(c)
     IN IF pid = 0 \/ ~gs.players[pid].isHost \/ gs.phase # "matching"
        THEN Same
        ELSE Do(startRevealPhase([clearTimer(St, "matching") EXCEPT !.g.matches = m]))
  /\ UNCHANGED <<conn, displaySocket, faults>>

\* the expiry schedule of a phase timer fires: clearTimer, then the callback;
\* cap bounds currentRound
TimerExpired(timerName, rank, cap) ==
  /\ schedules.timeout[timerName] > 0
  /\ \E s \in {clearTimer([St EXCEPT !.e.timeout[timerName] = @ - 1], timerName)} :
        CASE timerName = "themeSelection" ->
               IF s.g.selectedTheme = NoTheme /\ Len(s.g.themes) > 0
               THEN Do(selectTheme(s, s.g.themes[1]))
               ELSE Do(s)
          [] timerName = "answering" -> Do(endAnsweringPhase(s, rank))
          [] timerName = "matching" -> Do(autoSubmitMatches(s))
          [] timerName = "roundEnd" ->
               \E next \in {handleNextRound(s)} :
                 next.g.currentRound <= cap /\ Do(next)
  /\ UNCHANGED <<conn, displaySocket, faults>>

\* a setTimeout of startRevealPhase or revealNextMatch fires
RevealDelay ==
  /\ pending.reveal > 0
  /\ Do(revealNextMatch([St EXCEPT !.p.reveal = @ - 1]))
  /\ UNCHANGED <<conn, displaySocket, faults>>

\* the setTimeout of startSuddenDeath fires
SuddenDeathDelay ==
  /\ pending.suddenDeath > 0
  /\ Do(startThemeSelection([St EXCEPT !.p.suddenDeath = @ - 1]))
  /\ UNCHANGED <<conn, displaySocket, faults>>

\* next_round (the handler does not look at the sender); cap bounds
\* currentRound
NextRound(cap, maxStrays) ==
  /\ handleNextRound(St).g.currentRound <= cap
  /\ Do(handleNextRound(St))
  /\ Stray(gs.phase # "round_end", maxStrays)
  /\ UNCHANGED <<conn, displaySocket>>

\* play_again (the handler does not look at the sender)
PlayAgain(maxStrays) ==
  /\ Do(handlePlayAgain(St))
  /\ Stray(gs.phase # "game_over", maxStrays)
  /\ UNCHANGED <<conn, displaySocket>>

\* the client of connection c is gone; the transport notices it later
Drop(c) ==
  /\ c \in Open
  /\ faults.drops < MaxDrops
  /\ faults' = [faults EXCEPT !.drops = @ + 1]
  /\ conn' = [conn EXCEPT ![c].state = "lost"]
  /\ Same
  /\ UNCHANGED displaySocket

\* the transport reports that connection c is closed
Disconnect(c) ==
  /\ c \in 1..MaxConns
  /\ conn[c].state = "lost"
  /\ conn' = [conn EXCEPT ![c].state = "closed"]
  /\ Do(handleDisconnect(St, c))
  /\ UNCHANGED <<displaySocket, faults>>

\* the grace period of player pid runs out
GraceExpired(pid) ==
  /\ pid \in disconnectTimers
  /\ Do(graceExpired(St, pid))
  /\ UNCHANGED <<conn, displaySocket, faults>>

\* reconnect_player; tokenOk: the session token is the one of player pid.
\* An accepted reconnect is the first command of a fresh connection, opened
\* by a client whose connection was lost
Reconnect(playerId, sessionToken) ==
  /\ LET c == NewConn
         pid == findBySession(gs, playerId, sessionToken)
     IN IF pid # 0
        THEN /\ HasNew
             /\ \E b \in 1..MaxConns : conn[b].playerId = pid /\ conn[b].state \in {"lost", "closed"}
             /\ conn' = [conn EXCEPT ![c] = [state |-> "open", playerId |-> pid]]
             /\ Do(handleReconnect(St, c, playerId, sessionToken))
        ELSE Do(handleReconnect(St, c, playerId, sessionToken)) /\ UNCHANGED conn
  /\ UNCHANGED <<displaySocket, faults>>

\* ------------------------------------------------------------------ inputs
\* the outcomes of the shuffle of the answers of the non-host players
Ranks == IF gs.phase = "answering" \/ "answering" \in timers
         THEN Permutations(1..Len(NonHostIds(gs.players)))
         ELSE {<<>>}
NoRank == <<>>
\* answer texts: blank, and one character between two blanks
Blank == Rep(" ", 2)
Padded == <<" ", "a", " ">>
AnswerInputs == IF gs.phase = "answering" THEN {Blank, Padded} ELSE {Padded}
\* the credentials a reconnect_player message can carry
PlayerIdInputs == 0..MaxPlayers
TokenInputs == {<<"token", i>> : i \in 0..MaxPlayers}

\* what the host phone can send: a guess for each of the first m shuffled
\* positions, each naming one of the guessable (non-host) players
MatchInputs ==
  LET nh == Range(NonHostIds(gs.players))
      n == IF gs.phase = "matching" THEN Len(gs.matchingAnswers) ELSE 0
  IN UNION { { [k \in 1..m |-> [playerId |-> f[k], answerIndex |-> k - 1]] : f \in [1..m -> nh] }
             : m \in 0..n }

\* ---- the rounds up to MaxRound of a game among clients that follow their
\* screens, send what they like in the fields of a command, and may lose
\* their connection
Next ==
  \/ DisplayJoin
  \/ \E roomCode \in {FirstCode, OtherCode} : PlayerJoin(AName, roomCode)
  \/ \E c \in Senders : StartGame(c, 0)
  \/ \E c \in {DisplaySock, Stranger} : DisplayStartGame(c, 0)
  \/ \E ok \in BOOLEAN : ProviderDone(ok)
  \/ \E c \in Senders, theme \in ThemeChoices : ThemeSelect(c, theme)
  \/ \E c \in Senders, text \in AnswerInputs, rank \in Ranks : AnswerSubmit(c, text, rank)
  \/ \E c \in Senders, m \in MatchInputs : MatchesSubmit(c, m)
  \/ \E timerName \in TimerNames \ {"answering"} : TimerExpired(timerName, NoRank, MaxRound)
  \/ \E rank \in Ranks : TimerExpired("answering", rank, MaxRound)
  \/ RevealDelay
  \/ \E c \in Open : Drop(c)
  \/ \E c \in 1..MaxConns : Disconnect(c)
  \/ \E pid \in 1..MaxPlayers : GraceExpired(pid)
  \/ \E playerId \in PlayerIdInputs, sessionToken \in TokenInputs : Reconnect(playerId, sessionToken)

Spec == Init /\ [][Next]_vars

\* --------------- one game among MinPlayers clients that follow their screens
\* the connections of the current host, of the players who have yet to answer
HostSocks == {c \in Open : conn[c].playerId # 0 /\ gs.players[conn[c].playerId].isHost}
GuestSocks == {c \in Open : conn[c].playerId # 0 /\ ~gs.players[conn[c].playerId].isHost}

\* the guesses a host sends in this game: every shuffled position guessed
\* right, every position guessed as the author of the first one, or none
GameMatchInputs ==
  LET n == IF gs.phase = "matching" THEN Len(gs.matchingAnswers) ELSE 0
  IN { [k \in 1..n |-> [playerId |-> gs.matchingAnswers[k].playerId, answerIndex |-> k - 1]],
       [k \in 1..n |-> [playerId |-> gs.matchingAnswers[1].playerId, answerIndex |-> k - 1]],
       <<>> }

NextGame ==
  \/ displaySocket = NoSock /\ DisplayJoin
  \/ Len(gs.players) < MinPlayers /\ PlayerJoin(AName, FirstCode)
  \/ gs.phase = "lobby" /\ DisplayStartGame(DisplaySock, 0)
  \/ ProviderDone(TRUE)
  \/ \E c \in HostSocks : gs.phase = "theme_select" /\ gs.themes # <<>> /\ pending.provider = 0
                          /\ ThemeSelect(c, gs.themes[2])
  \/ \E c \in GuestSocks, rank \in Ranks : gs.phase = "answering" /\ AnswerSubmit(c, Padded, rank)
  \/ \E c \in HostSocks, m \in GameMatchInputs : gs.phase = "matching" /\ MatchesSubmit(c, m)
  \/ \E timerName \in TimerNames \ {"answering"} : TimerExpired(timerName, NoRank, MaxGameRound)
  \/ \E rank \in Ranks : TimerExpired("answering", rank, MaxGameRound)
  \/ RevealDelay
  \/ SuddenDeathDelay
  \/ gs.phase = "round_end" /\ NextRound(MaxGameRound, 0)

SpecGame == Init /\ [][NextGame]_vars

\* ------------- clients that send start_game and next_round in any phase
\* the guesses of a host who knows the crowd: every shuffled position right
RightGuesses ==
  LET n == IF gs.phase = "matching" THEN Len(gs.matchingAnswers) ELSE 0
  IN { [k \in 1..n |-> [playerId |-> gs.matchingAnswers[k].playerId, answerIndex |-> k - 1]] }

NextStray ==
  \/ Len(gs.players) < MinPlayers /\ PlayerJoin(AName, FirstCode)
  \/ \E c \in HostSocks : StartGame(c, MaxStrays)
  \/ ProviderDone(TRUE)
  \/ \E c \in HostSocks : ThemeSelect(c, Generated[1])
  \/ \E c \in GuestSocks, rank \in Ranks : AnswerSubmit(c, Padded, rank)
  \/ \E c \in HostSocks, m \in RightGuesses : MatchesSubmit(c, m)
  \/ \E timerName \in TimerNames \ {"answering"} : TimerExpired(timerName, NoRank, MaxStrayRound)
  \/ \E rank \in Ranks : TimerExpired("answering", rank, MaxStrayRound)
  \/ RevealDelay
  \/ SuddenDeathDelay
  \/ NextRound(MaxStrayRound, MaxStrays)
  \/ PlayAgain(0)

SpecStray == Init /\ [][NextStray]_vars

\* ------ one game in which everybody answers in time and every host is right
NextTie ==
  \/ Len(gs.players) < MinPlayers /\ PlayerJoin(AName, FirstCode)
  \/ \E c \in HostSocks : gs.phase = "lobby" /\ StartGame(c, 0)
  \/ ProviderDone(TRUE)
  \/ \E c \in HostSocks : gs.phase = "theme_select" /\ gs.themes # <<>> /\ pending.provider = 0
                          /\ ThemeSelect(c, gs.themes[1])
  \/ \E c \in GuestSocks, rank \in Ranks : gs.phase = "answering" /\ AnswerSubmit(c, Padded, rank)
  \/ \E c \in HostSocks, m \in RightGuesses : gs.phase = "matching" /\ MatchesSubmit(c, m)
  \/ RevealDelay
  \/ SuddenDeathDelay
  \/ TimerExpired("roundEnd", NoRank, MaxTieRound)
  \/ gs.phase = "round_end" /\ NextRound(MaxTieRound, 0)

SpecTie == Init /\ [][NextTie]_vars

\* ---- one game in which everybody answers in time, to its end, and the
\* commands that clients send once it is over
NextOver ==
  \/ Len(gs.players) < MinPlayers /\ PlayerJoin(AName, FirstCode)
  \/ \E c \in HostSocks : gs.phase \in {"lobby", "game_over"} /\ StartGame(c, MaxStrays)
  \/ ProviderDone(TRUE)
  \/ \E c \in HostSocks : gs.phase = "theme_select" /\ gs.themes # <<>> /\ pending.provider = 0
                          /\ ThemeSelect(c, gs.themes[1])
  \/ \E c \in GuestSocks, rank \in Ranks : gs.phase = "answering" /\ AnswerSubmit(c, Padded, rank)
  \/ \E c \in HostSocks, m \in GameMatchInputs : gs.phase = "matching" /\ MatchesSubmit(c, m)
  \/ RevealDelay
  \/ SuddenDeathDelay
  \/ TimerExpired("roundEnd", NoRank, MaxOverRound)
  \/ gs.phase \in {"round_end", "game_over"} /\ NextRound(MaxOverRound, MaxStrays)
  \/ gs.phase = "game_over" /\ PlayAgain(0)

SpecOver == Init /\ [][NextOver]_vars

\* ------------------------------------------------------------------ claims
\* the edges of the state machine of the phases
PhaseEdges ==
  { <<"lobby", "theme_select">>, <<"theme_select", "answering">>,
    <<"answering", "matching">>, <<"matching", "reveal">>,
    <<"reveal", "round_end">>, <<"round_end", "theme_select">>,
    <<"round_end", "sudden_death">>, <<"round_end", "game_over">>,
    <<"sudden_death", "theme_select">>, <<"game_over", "lobby">> }

Playing == gs.phase \notin {"lobby", "game_over"}
Hosts == {i \in 1..Len(gs.players) : gs.players[i].isHost}

\* C1: the phase changes only along the edges lobby -> theme_select,
\* theme_select -> answering, answering -> matching, matching -> reveal,
\* reveal -> round_end, round_end -> theme_select | sudden_death | game_over,
\* sudden_death -> theme_select and game_over -> lobby.  A next_round sent
\* in the lobby takes lobby to game_over or sudden_death.
C1_PhaseEdgesOnly ==
  [][gs'.phase = gs.phase \/ <<gs.phase, gs'.phase>> \in PhaseEdges]_vars

Authors(answers) == [k \in 1..Len(answers) |-> answers[k].playerId]
AfterShuffle == {"matching", "reveal", "round_end"}

\* C3: the shuffled ordering of a round is made when matching starts, it is
\* the ordering sent to the host, it stays as it is until the round is over,
\* and the results computed on the step from matching to reveal mark the
\* guess (answerIndex i, playerId p) correct iff the author of position i of
\* the ordering that was sent is p, whether the host or the automatic
\* fallback made the guesses
C3_ScoredAgainstSentOrder ==
  [][/\ (gs.phase # "matching" /\ gs'.phase = "matching")
          => /\ gs'.matchingAnswers = out'.sentAnswers
             /\ Len(out'.sentAnswers) = Len(gs'.answers)
             /\ Range(Authors(out'.sentAnswers)) = Range(Authors(gs'.answers))
     /\ (gs.phase \in AfterShuffle /\ gs'.phase \in AfterShuffle)
          => /\ out'.sentAnswers = out.sentAnswers
             /\ gs'.matchingAnswers = gs.matchingAnswers
     /\ (gs.phase = "matching" /\ gs'.phase = "reveal")
          => /\ Len(gs'.roundResults) = Len(gs'.matches)
             /\ \A k \in 1..Len(gs'.matches) :
                  LET i == gs'.matches[k].answerIndex
                      p == gs'.matches[k].playerId
                  IN /\ i \in 0..(Len(out.sentAnswers) - 1)
                     /\ gs'.roundResults[k].guessedPlayerId = p
                     /\ gs'.roundResults[k].isCorrect <=> (out.sentAnswers[i + 1].playerId = p)
    ]_vars

AnswersOf(i) == {k \in 1..Len(gs.answers) : gs.answers[k].playerId = i}

\* C4: in matching, reveal and round_end the answers hold exactly one entry
\* for every player who is not the host and none for the host.  A
\* start_game sent during matching leaves the matching timer pending, and
\* its expiry opens a reveal over the emptied answers.
C4_OneAnswerEach ==
  gs.phase \in AfterShuffle =>
    \A i \in 1..Len(gs.players) :
      Cardinality(AnswersOf(i)) = IF gs.players[i].isHost THEN 0 ELSE 1

\* the players holding the highest score of all, of the tied players
TopIds(ps) == {i \in 1..Len(ps) : ps[i].score = MaxScore(ps)}
TopTied(ps) == {i \in Range(TiedIds(ps)) : ps[i].score = MaxScoreOf(ps, TiedIds(ps))}
Flagged(ps) == {i \in 1..Len(ps) : ps[i].isTiedPlayer}

C6_WinnerIsTopTied ==
  (out.gameOver /\ out.wasSuddenDeath) =>
    /\ out.winner \in Flagged(gs.players)
    /\ TopTied(gs.players) = {out.winner}

\* a full sudden-death round is over with the tie unbroken
StillTied ==
  /\ gs.isSuddenDeath
  /\ gs.phase = "round_end"
  /\ ~out.uncaught
  /\ gs.tiedPlayerHostIndex + 1 >= Len(TiedIds(gs.players))
  /\ Cardinality(TopTied(gs.players)) > 1

\* C7: when every tied player has hosted once and two or more of them still
\* share the highest score among the tied, the end of the round starts
\* another sudden-death round: phase theme_select, the first tied player as
\* host, currentRound incremented, no error.  handleNextRound throws on its
\* call of log and stays in round_end.
C7_AnotherRound ==
  [][(StillTied /\ (gs' # gs \/ out' # out))
       => /\ gs'.phase = "theme_select"
          /\ gs'.currentHostIndex + 1 = TiedIds(gs.players)[1]
          /\ gs'.currentRound = gs.currentRound + 1
          /\ ~out'.uncaught
    ]_vars

\* C8: in sudden death the phase is never game_over while two or more tied
\* players share the highest score among the tied players
C8_NoTiedGameOver ==
  (gs.isSuddenDeath /\ gs.phase = "game_over") => Cardinality(TopTied(gs.players)) = 1

\* a game is over after a sudden-death round that broke a tie
C8_Witness ==
  /\ gs.isSuddenDeath
  /\ gs.phase = "game_over"
  /\ gs.suddenDeathRound = 1
  /\ Cardinality(Flagged(gs.players)) > 1

\* the place of player i among the tied players, 0 when i is not tied
TiedPos(ps, i) ==
  IF i \in Range(TiedIds(ps))
  THEN CHOOSE k \in 1..Len(TiedIds(ps)) : TiedIds(ps)[k] = i
  ELSE 0

\* C9: in sudden death the host of every round is a tied player and the
\* tied players host in join order, each once in a sudden-death round: the
\* host after the k-th tied player is the next one, and after the last the
\* first; the other players answer; game_over reports wasSuddenDeath exactly
\* when sudden death ran and the full rounds it took.  After the error of
\* C7 the next round goes to the second tied player.
C9_TiedHostsInOrder ==
  [][/\ (gs.isSuddenDeath /\ gs'.isSuddenDeath /\ gs'.currentRound = gs.currentRound + 1)
          => LET n == Len(TiedIds(gs.players))
                 k == TiedPos(gs.players, gs.currentHostIndex + 1)
                 next == TiedPos(gs'.players, gs'.currentHostIndex + 1)
             IN /\ next = IF k = n THEN 1 ELSE k + 1
                /\ Hosts' = {gs'.currentHostIndex + 1}
     /\ (~out.gameOver /\ out'.gameOver)
          => /\ out'.wasSuddenDeath = gs'.isSuddenDeath
             /\ out'.suddenDeathRounds = gs'.suddenDeathRound
    ]_vars

\* C10: in a game that does not enter sudden death totalRounds is the
\* number of players times the rotations, and the host of round k is the
\* player of join order (k - 1) mod N.  A start_game sent in round 2 starts
\* round 1 over with the host of round 2.
C10_HostOfRound ==
  (out.started > 0 /\ ~gs.isSuddenDeath /\ Playing) =>
    /\ gs.totalRounds = Len(gs.players) * Rotations
    /\ gs.currentRound \in 1..gs.totalRounds
    /\ gs.currentHostIndex = (gs.currentRound - 1) % Len(gs.players)

Scores(ps) == [i \in 1..Len(ps) |-> ps[i].score]

\* C11: once the phase is game_over only play_again leaves it, towards the
\* lobby, and until then the scores stay as they are.  A start_game of the
\* host in game_over starts round 1 of another game over the old scores.
C11_GameOverStays ==
  [][gs.phase = "game_over"
       => \/ gs'.phase = "game_over" /\ Scores(gs'.players) = Scores(gs.players)
          \/ gs'.phase = "lobby"
    ]_vars

\* a step that is the handling of a command in a phase to which the command
\* does not belong
WrongPhaseCommand ==
  \/ gs.phase # "lobby" /\ \E c \in Senders : StartGame(c, MaxStrays)
  \/ gs.phase # "lobby" /\ DisplayStartGame(DisplaySock, MaxStrays)
  \/ gs.phase # "theme_select" /\ \E c \in Senders, theme \in ThemeChoices : ThemeSelect(c, theme)
  \/ gs.phase # "answering" /\ \E c \in Senders, rank \in Ranks : AnswerSubmit(c, Padded, rank)
  \/ gs.phase # "matching" /\ \E c \in Senders, m \in RightGuesses : MatchesSubmit(c, m)
  \/ gs.phase # "round_end" /\ NextRound(MaxStrayRound, MaxStrays)

\* C12: a command handled in a phase to which it does not belong leaves the
\* game state and the timers as they are.  start_game, display_start_game
\* and next_round are handled whatever the phase.
C12_WrongPhaseRejected ==
  [][WrongPhaseCommand => gs' = gs /\ timers' = timers]_vars

\* the grace period of a host who is still disconnected runs out
HostGraceExpires(pid) ==
  /\ pid \in 1..Len(gs.players)
  /\ gs.players[pid].isHost
  /\ ~gs.players[pid].isConnected
  /\ gs.phase \in {"theme_select", "matching"}
  /\ GraceExpired(pid)

\* the matches of autoSubmitMatches: the k-th guessable player for the
\* position (k - 1) mod the number of answers
FallbackMatches(g) ==
  [k \in 1..Len(NonHostIds(g.players)) |->
     [playerId |-> NonHostIds(g.players)[k], answerIndex |-> (k - 1) % Len(g.answers)]]

\* what a disconnect does besides marking the player: nothing, unless it is
\* the host in theme_select or matching, whose grace period starts
DisconnectQuiet ==
  \A c \in 1..MaxConns :
    Disconnect(c) =>
      LET pid == PlayerBoundTo(gs.players, c)
      IN /\ gs'.phase = gs.phase
         /\ timers' = timers
         /\ disconnectTimers' =
              IF pid # 0 /\ gs.players[pid].isHost /\ gs.phase \in {"theme_select", "matching"}
              THEN disconnectTimers \cup {pid}
              ELSE disconnectTimers

\* C13 as stated: when the grace period of a disconnected host runs out in
\* theme_select the first candidate theme is selected and the phase becomes
\* answering, in matching the fallback matches are submitted and the phase
\* becomes reveal; any other disconnect starts no grace timer and changes no
\* phase.  Before the provider has answered there is no candidate, and the
\* first fallback theme is selected.
C13_GraceFallback ==
  [][/\ \A pid \in 1..MaxPlayers :
          HostGraceExpires(pid) =>
            IF gs.phase = "theme_select"
            THEN /\ gs'.phase = "answering"
                 /\ gs.themes # <<>>
                 /\ gs'.selectedTheme = gs.themes[1]
            ELSE /\ gs'.phase = "reveal"
                 /\ gs'.matches = FallbackMatches(gs)
     /\ DisconnectQuiet
    ]_vars

\* C13 amended: as C13, the theme selected in theme_select being the first
\* of gameState.themes, or the first fallback theme while that list is empty
C13_GraceFallbackOrFirstFallback ==
  [][/\ \A pid \in 1..MaxPlayers :
          HostGraceExpires(pid) =>
            IF gs.phase = "theme_select"
            THEN /\ gs'.phase = "answering"
                 /\ gs'.selectedTheme = IF gs.themes # <<>> THEN gs.themes[1] ELSE Fallback[1]
            ELSE /\ gs'.phase = "reveal"
                 /\ gs'.matches = FallbackMatches(gs)
     /\ DisconnectQuiet
    ]_vars

\* the grace period has submitted the fallback matches for a host who is
\* still disconnected (the matching timer is the one the host left behind)
C13_Witness ==
  /\ gs.phase = "reveal"
  /\ \E i \in Hosts : ~gs.players[i].isConnected
  /\ disconnectTimers = {}
  /\ "matching" \in timers

\* player i is connected through a socket other than one it used before
Reconnected(i) ==
  /\ gs.players[i].isConnected
  /\ gs.players[i].socketId \in Open
  /\ \E b \in 1..MaxConns : b # gs.players[i].socketId /\ conn[b].playerId = i

\* C14: a reconnect_player with the credentials of a roster player cancels
\* that player's grace period timer without a phase change, sets
\* isConnected, and binds the player to the new connection; the commands a
\* reconnected host then sends on that connection are accepted.
C14_ReconnectRestores ==
  [][/\ \A pid \in 1..MaxPlayers, tok \in TokenInputs :
          (pid <= Len(gs.players) /\ tok = Tokens[pid] /\ Reconnect(pid, tok)) =>
            /\ disconnectTimers' = disconnectTimers \ {pid}
            /\ gs'.phase = gs.phase
            /\ gs'.players[pid].isConnected
            /\ gs'.players[pid].socketId = NewConn
            /\ conn'[NewConn] = [state |-> "open", playerId |-> pid]
            /\ PlayerBoundTo(gs'.players, NewConn) = pid
     /\ \A h \in Hosts, c \in 1..MaxConns :
          (Reconnected(h) /\ gs.players[h].socketId = c) =>
            /\ \A theme \in ThemeChoices :
                 (gs.phase = "theme_select" /\ ThemeSelect(c, theme)) =>
                   gs'.phase = "answering" /\ gs'.selectedTheme = theme
            /\ \A m \in MatchInputs :
                 (gs.phase = "matching" /\ MatchesSubmit(c, m)) =>
                   gs'.phase = "reveal" /\ gs'.matches = m
    ]_vars

\* a host who came back on a new connection, after a theme only a host
\* command selects
C14_Witness ==
  /\ gs.phase = "answering"
  /\ gs.selectedTheme \in ThemeChoices
  /\ disconnectTimers = {}
  /\ \E h \in Hosts : Reconnected(h)

\* playerId and sessionToken are those of one roster player
SamePlayer(playerId, tok) ==
  playerId \in 1..Len(gs.players) /\ gs.players[playerId].sessionToken = tok

\* C16: reconnect_player succeeds only when playerId and sessionToken are
\* those of one roster player; with any other credentials the answer is
\* reconnect_failed and the handler leaves GameState, phase timers and grace
\* timers as they are, and no step binds the connection to a player.
C16_ReconnectNeedsBoth ==
  /\ [](\A playerId \in PlayerIdInputs, tok \in TokenInputs :
          IF SamePlayer(playerId, tok)
          THEN ReconnectReply(gs, playerId, tok) = "reconnected"
          ELSE /\ ReconnectReply(gs, playerId, tok) = "reconnect_failed"
               /\ \A c \in 1..MaxConns : handleReconnect(St, c, playerId, tok) = St)
  /\ [][\A playerId \in PlayerIdInputs, tok \in TokenInputs :
          (conn' # conn /\ Reconnect(playerId, tok)) =>
            /\ SamePlayer(playerId, tok)
            /\ gs'.players[playerId].isConnected
            /\ gs'.players[playerId].socketId = NewConn
            /\ conn'[NewConn].playerId = playerId
       ]_vars

\* a guessing player is back on a new connection during a round
C16_Witness ==
  /\ Playing
  /\ \E i \in 1..Len(gs.players) : ~gs.players[i].isHost /\ Reconnected(i)

\* the matching_phase_start payload sent when matching began
SentAtStart == [answers |-> out.sentAnswers, players |-> out.sentPlayers]

\* C15: the payload a host gets on reconnecting during matching is the one
\* sent when matching began: the same shuffled answers in the same
\* positions and the same guessable players.
C15_SamePayload ==
  [][\A pid \in 1..MaxPlayers, tok \in TokenInputs :
       (/\ conn' # conn
        /\ gs.phase = "matching"
        /\ pid \in Hosts
        /\ Reconnect(pid, tok)) => ReconnectPayload(gs') = SentAtStart
    ]_vars

\* a host is back on a new connection in matching, two answers having been
\* shuffled out of their submission order
C15_Witness ==
  /\ gs.phase = "matching"
  /\ \E h \in Hosts : Reconnected(h)
  /\ Len(gs.answers) >= 2
  /\ Authors(gs.matchingAnswers) # Authors(gs.answers)

\* in matching the stored payload is at every moment the one that was sent
PayloadKept == gs.phase = "matching" => ReconnectPayload(gs) = SentAtStart

\* ------------------------------------------------ a game nobody attends to
\* three players join and the host starts the game; from then on no client
\* sends anything, and the timers, the delays and the theme provider do all
\* the work
Automatic ==
  \/ \E ok \in BOOLEAN : ProviderDone(ok)
  \/ \E timerName \in TimerNames, rank \in Ranks : TimerExpired(timerName, rank, MaxIdleRound)
  \/ RevealDelay
  \/ SuddenDeathDelay

NextIdle ==
  \/ Len(gs.players) < MinPlayers /\ PlayerJoin(AName, FirstCode)
  \/ \E c \in HostSocks : gs.phase = "lobby" /\ StartGame(c, 0)
  \/ Automatic

\* every timer that is pending fires, every delay runs out, and the theme
\* provider resolves or fails
FairIdle ==
  /\ WF_vars(\E ok \in BOOLEAN : ProviderDone(ok))
  /\ \A timerName \in TimerNames :
       WF_vars(\E rank \in Ranks : TimerExpired(timerName, rank, MaxIdleRound))
  /\ WF_vars(RevealDelay)
  /\ WF_vars(SuddenDeathDelay)

SpecIdle == Init /\ [][NextIdle]_vars /\ FairIdle

TimedPhases == {"theme_select", "answering", "matching", "reveal", "round_end"}

\* C17: with fair timers and a theme provider that resolves or fails, each
\* of theme_select, answering, matching, reveal and round_end is eventually
\* left without any client command (rounds below the bound of the model).
C17_EveryPhaseExited ==
  \A ph \in TimedPhases :
    (gs.phase = ph /\ gs.currentRound < MaxIdleRound) ~> (gs.phase # ph)

\* C17 without round_end
ExitedBeforeRoundEnd ==
  \A ph \in TimedPhases \ {"round_end"} :
    (gs.phase = ph /\ gs.currentRound < MaxIdleRound) ~> (gs.phase # ph)

\* round_end is left unless handleNextRound has thrown
RoundEndExitedOrThrown ==
  (gs.phase = "round_end" /\ gs.currentRound < MaxIdleRound)
    ~> (gs.phase # "round_end" \/ out.uncaught)

\* ------------------------------------------------- the answers of a round
\* round one with every sender and with texts that are empty, blank, padded,
\* and longer than the limit
LongText == <<" ">> \o Rep("a", MaxAnswerLength - 1) \o <<" ", "b", " ">>
Texts == {<<>>, Blank, Padded, LongText}

NextText ==
  \/ Len(gs.players) < MinPlayers /\ PlayerJoin(AName, FirstCode)
  \/ \E c \in HostSocks : gs.phase = "lobby" /\ StartGame(c, 0)
  \/ ProviderDone(TRUE)
  \/ \E c \in HostSocks : gs.phase = "theme_select" /\ gs.themes # <<>> /\ pending.provider = 0
                          /\ ThemeSelect(c, gs.themes[1])
  \/ \E c \in Senders, text \in Texts, rank \in Ranks : AnswerSubmit(c, text, rank)
  \/ \E rank \in Ranks : TimerExpired("answering", rank, MaxRound)
  \/ \E c \in HostSocks, m \in RightGuesses : gs.phase = "matching" /\ MatchesSubmit(c, m)
  \/ RevealDelay

SpecText == Init /\ [][NextText]_vars

\* the text without the whitespace around it, cut after MaxAnswerLength
\* characters
Expected(text) ==
  LET inked == {i \in 1..Len(text) : text[i] # " "}
  IN IF inked = {} THEN <<>>
     ELSE LET lo == CHOOSE i \in inked : \A j \in inked : i <= j
              hi == CHOOSE i \in inked : \A j \in inked : j <= i
          IN SubSeq(text, lo, IF hi < lo + MaxAnswerLength THEN hi ELSE lo + MaxAnswerLength - 1)

NoTwoAnswers ==
  \A i, j \in 1..Len(gs.answers) : gs.answers[i].playerId = gs.answers[j].playerId => i = j

\* C20: in answering, submit_answer from the host, from a player who has
\* answered, from a connection bound to no player, or with an empty or blank
\* text leaves answers and scores as they are; any other submit_answer adds
\* one answer of the sender, the text trimmed and cut to 100 characters; and
\* no player ever has two answers in a round.
C20_SubmitAnswer ==
  /\ NoTwoAnswers
  /\ gs.phase = "answering" =>
       \A c \in Senders, text \in Texts, rank \in Ranks :
         LET pid == PlayerOf(c)
             after == handleAnswerSubmit(St, pid, text, rank).g
         IN IF \/ pid = 0
               \/ gs.players[pid].isHost
               \/ HasSubmitted(gs.answers, pid)
               \/ Expected(text) = <<>>
            THEN after.answers = gs.answers /\ Scores(after.players) = Scores(gs.players)
            ELSE /\ after.answers = Append(gs.answers, [playerId |-> pid, answer |-> Expected(text),
                                                        penalty |-> FALSE])
                 /\ Len(Expected(text)) <= MaxAnswerLength

\* both guessing players have answered, one with the padded text and one
\* with the long one, stored without the padding and cut to the limit
C20_Witness ==
  /\ gs.phase = "matching"
  /\ \E i, j \in 1..Len(gs.answers) :
       /\ gs.answers[i].answer = <<"a">>
       /\ gs.answers[j].answer = Rep("a", MaxAnswerLength - 1) \o <<" ">>

\* an accepted submit_answer that completes the answers of the round
LastSubmission ==
  /\ Len(gs.answers) + 1 = Len(NonHostIds(gs.players))
  /\ Len(gs'.answers) = Len(gs.answers) + 1
  /\ \E c \in Senders, rank \in Ranks : AnswerSubmit(c, Padded, rank)

\* the answering timer expires
AnsweringTimeout ==
  \E rank \in Ranks : TimerExpired("answering", rank, MaxStrayRound)

\* C18: in answering, the submission that completes the answers cancels the
\* answering timer and opens matching in the same step without a penalty;
\* the phase answering is left by that step or by the expiry of the
\* answering timer, and by nothing else.
C18_AllInOrTimeout ==
  [][gs.phase = "answering" =>
       /\ LastSubmission =>
            /\ gs'.phase = "matching"
            /\ "answering" \notin timers'
            /\ Scores(gs'.players) = Scores(gs.players)
            /\ \A k \in 1..Len(gs'.answers) : ~gs'.answers[k].penalty
       /\ gs'.phase # "answering" => (LastSubmission \/ AnsweringTimeout)
    ]_vars

\* the positions of the answers of player i
EntriesOf(answers, i) == {k \in 1..Len(answers) : answers[k].playerId = i}

MatchingTimeout == gs.phase = "matching" /\ TimerExpired("matching", NoRank, MaxStrayRound)

\* the guesses in ms for position pos of the shuffled answers
GuessesFor(ms, pos) == {k \in 1..Len(ms) : ms[k].answerIndex = pos}

RightFor(ms, shuffledAnswers, pos) ==
  \E k \in GuessesFor(ms, pos) : ms[k].playerId = shuffledAnswers[pos + 1].playerId

\* C22: a round is scored as perfect, the perfect-round bonus going to the
\* host, only if there is a correct guess for every position of the round's
\* shuffled answers; guesses for only some of the answers make no perfect
\* round.
C22_PerfectNeedsAll ==
  [][(gs.phase = "matching" /\ gs'.phase = "reveal") =>
       LET h == getCurrentHost(gs)
           hostScoreResult == calculateHostScore(gs'.roundResults, PerfectRound)
           bonus == gs'.players[h].score - gs.players[h].score
                      = hostScoreResult.correctMatches + PerfectRound
       IN (hostScoreResult.isPerfect \/ bonus) =>
            \A pos \in 0..(Len(gs.matchingAnswers) - 1) :
              RightFor(gs'.matches, gs.matchingAnswers, pos)
    ]_vars

\* ------------------------------------------------ the scoring of a round
\* round one with both guessing players answering and the host submitting
\* any list of up to MaxMatches matches, with players that are not in the
\* roster (0) and positions that are not in the shuffled list
NoPlayer == 0
WildMatches ==
  [playerId : {NoPlayer} \cup (1..MaxPlayers), answerIndex : (0 - 1)..(MaxPlayers - 1)]
WildMatchInputs == UNION {[1..n -> WildMatches] : n \in 0..MaxMatches}
\* the lists that say one match MaxRepeats times
RepeatedMatches == {[k \in 1..MaxRepeats |-> match] : match \in WildMatches}

NextScore ==
  \/ Len(gs.players) < MinPlayers /\ PlayerJoin(AName, FirstCode)
  \/ \E c \in HostSocks : gs.phase = "lobby" /\ StartGame(c, 0)
  \/ ProviderDone(TRUE)
  \/ \E c \in HostSocks : gs.phase = "theme_select" /\ gs.themes # <<>> /\ pending.provider = 0
                          /\ ThemeSelect(c, gs.themes[1])
  \/ \E c \in GuestSocks, rank \in Ranks : gs.phase = "answering" /\ AnswerSubmit(c, Padded, rank)
  \/ \E c \in HostSocks, m \in WildMatchInputs \cup RepeatedMatches :
       gs.phase = "matching" /\ MatchesSubmit(c, m)

SpecScore == Init /\ [][NextScore]_vars

\* result lists of up to MaxResults results, and perfect-round bonuses
SomeResults ==
  {[guessedPlayerId |-> g, actualPlayerId |-> a, isCorrect |-> (g = a)] : g, a \in 1..2}
ResultLists == UNION {[1..n -> SomeResults] : n \in 0..MaxResults}
Bonuses == {0, PerfectRound}

\* what C23 says of one result list and one bonus
HostScoreAsStated(results, perfectBonus) ==
  LET r == calculateHostScore(results, perfectBonus)
      correct == Cardinality({k \in 1..Len(results) : results[k].isCorrect})
      total == Len(results)
  IN /\ r.correctMatches = correct
     /\ r.totalMatches = total
     /\ r.correctMatches <= r.totalMatches
     /\ r.isPerfect <=> (correct = total /\ total > 0)
     /\ r.score = IF r.isPerfect THEN correct + perfectBonus ELSE correct
     /\ results = <<>> => (r.score = 0 /\ ~r.isPerfect)

\* C23: calculateHostScore counts the correct results and all results,
\* correctMatches <= totalMatches, isPerfect holds exactly when the two are
\* equal and positive, the score is correctMatches plus the bonus of a
\* perfect round, and an empty list scores 0 and is not perfect: for every
\* list of up to MaxResults results, and for the results of the round.
C23_HostScore ==
  /\ \A results \in ResultLists, perfectBonus \in Bonuses :
       HostScoreAsStated(results, perfectBonus)
  /\ HostScoreAsStated(gs.roundResults, PerfectRound)

\* the host has guessed both answers right and has the two points and the bonus
C23_Witness ==
  /\ gs.phase = "reveal"
  /\ Len(gs.roundResults) = 2
  /\ \A k \in 1..2 : gs.roundResults[k].isCorrect
  /\ \E h \in Hosts : gs.players[h].score = 2 + PerfectRound

\* the results as C24 states them: the matches that name a position of the
\* shuffled answers and a roster player, in their order
ResultsAsStated(matches, shuffledAnswers, ps) ==
  LET kept == SelectSeq(matches, LAMBDA mt : /\ mt.answerIndex \in 0..(Len(shuffledAnswers) - 1)
                                            /\ mt.playerId \in 1..Len(ps))
  IN [k \in 1..Len(kept) |->
       [guessedPlayerId |-> kept[k].playerId,
        actualPlayerId |-> shuffledAnswers[kept[k].answerIndex + 1].playerId,
        isCorrect |-> (kept[k].playerId = shuffledAnswers[kept[k].answerIndex + 1].playerId)]]

\* C24: calculateRoundResults returns, in match order, one result for each
\* match that names a position of shuffledAnswers and a roster player,
\* correct exactly when the match names the author of that position; other
\* matches are dropped: for every list of up to MaxMatches matches against
\* every prefix of the shuffled answers, and for the matches of the round.
C24_RoundResults ==
  /\ \A matches \in WildMatchInputs, n \in 0..Len(gs.matchingAnswers) :
       calculateRoundResults(matches, SubSeq(gs.matchingAnswers, 1, n), gs.players)
         = ResultsAsStated(matches, SubSeq(gs.matchingAnswers, 1, n), gs.players)
  /\ gs.phase = "reveal" =>
       gs.roundResults = ResultsAsStated(gs.matches, gs.matchingAnswers, gs.players)

\* the host has sent two matches of which one names no roster player or no
\* position, and the reveal has the result of the other
C24_Witness ==
  /\ gs.phase = "reveal"
  /\ Len(gs.matches) = 2
  /\ Len(gs.roundResults) = 1

\* the themes a host_select_theme can carry
AnyTheme == Range(Generated) \cup Range(Fallback)

\* C25: in theme_select, host_select_theme from a socket bound to no player
\* or to a player who is not the host of the round is answered with an
\* error and leaves phase, selectedTheme and the timers as they are.
C25_OnlyHostSelects ==
  gs.phase = "theme_select" =>
    \A c \in Senders, theme \in AnyTheme :
      LET pid == PlayerOf(c)
          after == handleThemeSelect(St, pid, theme)
      IN (pid = 0 \/ pid # getCurrentHost(gs)) =>
           /\ ThemeSelectReply(gs, pid) = "error"
           /\ after.g.phase = gs.phase
           /\ after.g.selectedTheme = gs.selectedTheme
           /\ after.t = timers
           /\ after = St

\* theme_select with the themeSelection timer pending and a guessing player
\* connected, no theme selected
C25_Witness ==
  /\ gs.phase = "theme_select"
  /\ "themeSelection" \in timers
  /\ gs.selectedTheme = NoTheme
  /\ \E c \in Open : PlayerOf(c) # 0 /\ PlayerOf(c) # getCurrentHost(gs)

\* C26: in lobby, start_game from the host and display_start_game from the
\* display are answered with an error while there are fewer than minPlayers
\* players, start_game from anybody but the host and display_start_game
\* from any socket but the display are answered with an error always; the
\* phase stays lobby and the round counters stay as they are.
C26_StartNeedsHostAndPlayers ==
  gs.phase = "lobby" =>
    /\ \A c \in Senders :
         LET pid == PlayerOf(c)
             after == handleStartGame(St, pid)
         IN (pid = 0 \/ pid \notin Hosts \/ Len(gs.players) < MinPlayers) =>
              /\ StartGameReply(gs, pid) = "error"
              /\ after.g.phase = "lobby"
              /\ after.g.currentRound = gs.currentRound
              /\ after.g.totalRounds = gs.totalRounds
              /\ after = St
    /\ \A c \in Senders \cup {DisplaySock} :
         LET after == handleDisplayStartGame(St, displaySocket, c)
         IN (c # displaySocket \/ Len(gs.players) < MinPlayers) =>
              /\ DisplayStartGameReply(gs, displaySocket, c) = "error"
              /\ after.g.phase = "lobby"
              /\ after.g.currentRound = gs.currentRound
              /\ after.g.totalRounds = gs.totalRounds
              /\ after = St

\* the lobby with the display and a host who is one player short
C26_Witness ==
  /\ gs.phase = "lobby"
  /\ displaySocket = DisplaySock
  /\ Len(gs.players) = MinPlayers - 1
  /\ \E c \in Open : PlayerOf(c) \in Hosts

\* what play_again keeps of a player
Kept(player) ==
  [name |-> player.name, joinOrder |-> player.joinOrder,
   sessionToken |-> player.sessionToken]

\* C27: play_again sets every score to 0 and the phase to lobby, puts the
\* round counters, answers, matches, results and the sudden-death fields of
\* GameState back to their initial values, and keeps the roster: the same
\* players in the same order, each with its id, joinOrder and sessionToken;
\* the player with joinOrder 0 is the host.
C27_PlayAgainResets ==
  LET after == handlePlayAgain(St).g
  IN /\ after.phase = "lobby"
     /\ after.currentRound = 0 /\ after.totalRounds = 0 /\ after.currentHostIndex = 0
     /\ after.answers = <<>> /\ after.matches = <<>> /\ after.roundResults = <<>>
     /\ after.revealIndex = 0
     /\ ~after.isSuddenDeath /\ after.suddenDeathRound = 0
     /\ after.tiedPlayerIds = {} /\ after.tiedPlayerHostIndex = 0
     /\ Len(after.players) = Len(gs.players)
     /\ \A i \in 1..Len(gs.players) :
          /\ after.players[i].score = 0
          /\ Kept(after.players[i]) = Kept(gs.players[i])
          /\ after.players[i].joinOrder = i - 1
          /\ after.players[i].isHost <=> (gs.players[i].joinOrder = 0)

\* the lobby after a game: play_again has put back a roster that had scores
C27_Witness ==
  /\ gs.phase = "lobby"
  /\ out.started > 0
  /\ Len(gs.players) = MinPlayers
  /\ \A i \in 1..Len(gs.players) : gs.players[i].score = 0

\* ------------------------------------------------------------- join_room
\* what the clients put into the fields of join_room
JoinCodes == {<<>>, FirstCode, OtherCode}
\* what identifies the players of the roster, in roster order
Roster(g) == [i \in 1..Len(g.players) |-> Kept(g.players[i])]

JoinRejected(roomCode) ==
  \/ ~validateRoom(roomManager, roomCode)
  \/ gs.phase # "lobby"
  \/ Len(gs.players) >= MaxPlayers

\* C28: join_room with a room code that is not valid, in a phase other than
\* lobby, or to a roster of maxPlayers players is answered with join_error
\* and changes nothing; the roster never has more than maxPlayers players,
\* changes only in the lobby and only by growing at its end, and every
\* player's joinOrder is its position in the roster
C28_JoinRejections ==
  /\ [](/\ \A c \in 1..MaxConns, roomCode \in JoinCodes :
            JoinRejected(roomCode) =>
              /\ JoinReply(St, roomCode).event = "join_error"
              /\ handlePlayerJoin(St, c, AName, roomCode) = St
        /\ Len(gs.players) <= MaxPlayers
        /\ \A i \in 1..Len(gs.players) : gs.players[i].joinOrder = i - 1)
  /\ [][/\ gs.phase # "lobby" => Roster(gs') = Roster(gs)
        /\ Len(gs'.players) >= Len(gs.players)
        /\ SubSeq(Roster(gs'), 1, Len(gs.players)) = Roster(gs)]_vars

\* a full room in the lobby, a client at the door
C28_Witness ==
  /\ HasNew
  /\ Len(gs.players) = MaxPlayers
  /\ JoinReply(St, FirstCode).message = "Room is full"

\* ------------------------------------------------------------------- names
\* the names the clients type in: twice the same letter in its two cases,
\* padded, already numbered, and another letter
NameInputs == {<<"a">>, <<"A">>, <<" ", "a", " ">>, <<"a", "(", "2", ")">>,
               <<"A", "(", "2", ")">>, <<"b">>}

\* ---- the joins to one room, under any of the names, the code typed as it
\* is shown or in lower case with blanks around it
NextJoin ==
  \E name \in NameInputs, roomCode \in {FirstCode, <<" ", "a", "b", " ">>} :
    PlayerJoin(name, roomCode)

SpecJoin == Init /\ [][NextJoin]_vars

LowerNames(ps) == {toLowerCase(ps[i].name) : i \in 1..Len(ps)}

\* the name stored for typed among the players ps, as stated: typed itself
\* (cut to size) when it is new, else with the first free counter from 2
StoredAsStated(ps, typed, stored) ==
  LET base == substring(trim(typed), 0, MaxNameLength)
      suffixed(k) == base \o <<"(">> \o toString(k) \o <<")">>
  IN IF toLowerCase(base) \notin LowerNames(ps) THEN stored = base
     ELSE \E k \in 2..(Len(ps) + 2) :
            /\ stored = suffixed(k)
            /\ toLowerCase(suffixed(k)) \notin LowerNames(ps)
            /\ \A j \in 2..(k - 1) : toLowerCase(suffixed(j)) \in LowerNames(ps)

\* C29: a join under a name that is in the room already (ignoring case) is
\* stored with the suffix (k), k the smallest counter from 2 that gives a
\* name not in the room; the names in the room are pairwise distinct
\* ignoring case
C29_UniqueNames ==
  /\ [](\A i, j \in 1..Len(gs.players) :
          i # j => toLowerCase(gs.players[i].name) # toLowerCase(gs.players[j].name))
  /\ [][\A name \in NameInputs :
          (conn' # conn /\ PlayerJoin(name, FirstCode)) =>
            StoredAsStated(gs.players, name, gs'.players[Len(gs'.players)].name)]_vars

\* "a" and "a(2)" are in the room and "A" joined as "A(3)"
C29_Witness ==
  /\ Len(gs.players) = 3
  /\ gs.players[1].name = <<"a">>
  /\ gs.players[2].name = <<"a", "(", "2", ")">>
  /\ gs.players[3].name = <<"A", "(", "3", ")">>

\* ------------------------------------------------------------------- rooms
\* the codes handed to validateRoom and closeRoom: those of the rooms, one
\* in lower case with blanks around it, and the empty text
CodeInputs == RoomCodes \cup {<<" ", "a", "b", " ">>, <<>>}

\* createRoom, generateRoomCode having drawn roomCode
CreateRoom(roomCode) ==
  /\ roomCode \in generateRoomCode(roomManager)
  /\ Do([St EXCEPT !.r = createRoom(@, roomCode)])
  /\ UNCHANGED <<conn, displaySocket, faults>>

CloseRoom(code) ==
  /\ Do([St EXCEPT !.r = closeRoom(@, code)])
  /\ UNCHANGED <<conn, displaySocket, faults>>

\* ---- the room manager under its own operations, and the joins that ask it
NextRoom ==
  \/ \E roomCode \in RoomCodes : CreateRoom(roomCode)
  \/ \E code \in CodeInputs : CloseRoom(code)
  \/ \E roomCode \in CodeInputs : PlayerJoin(AName, roomCode)

SpecRoom == Init /\ [][NextRoom]_vars

\* the code of the room that is current and not closed, if there is one
ActiveCode(rm) ==
  IF rm.currentRoom # NoRoom /\ rm.rooms[rm.currentRoom] = "active"
  THEN rm.currentRoom ELSE NoRoom

\* C30: validateRoom(code) is true exactly when code, trimmed and in upper
\* case, is the code of the currently active room that is not closed, so it
\* is false for the code of a closed or superseded room; getCurrentRoomCode
\* is null when no room is active
C30_ValidateRoom ==
  /\ \A code \in CodeInputs :
       validateRoom(roomManager, code) <=>
         /\ ActiveCode(roomManager) # NoRoom
         /\ toUpperCase(trim(code)) = ActiveCode(roomManager)
  /\ ActiveCode(roomManager) = NoRoom => getCurrentRoomCode(roomManager) = NoRoom

\* --------------------------------------------------------------- game_over
\* C31: the scoreboard of game_over is sorted by descending score, it lists
\* every player with the score the player has, and the winner is a player
\* whose score is the maximum over all players
C31_GameOverScoreboard ==
  /\ [](out.gameOver =>
          /\ \A k \in 1..(Len(out.scoreboard) - 1) :
               out.scoreboard[k].score >= out.scoreboard[k + 1].score
          /\ out.winner \in {out.scoreboard[k].id : k \in 1..Len(out.scoreboard)})
  /\ [][(out'.gameOver /\ (~out.gameOver \/ out'.scoreboard # out.scoreboard)) =>
          /\ Len(out'.scoreboard) = Len(gs'.players)
          /\ \A i \in 1..Len(gs'.players) :
               \E k \in 1..Len(out'.scoreboard) :
                 out'.scoreboard[k] = [id |-> i, score |-> gs'.players[i].score]
          /\ gs'.players[out'.winner].score = MaxScore(gs'.players)]_vars

\* a game is over, won by a player who is not the first of the roster
C31_Witness ==
  /\ out.gameOver
  /\ out.winner # 1
  /\ \E k \in 1..Len(out.scoreboard) : out.scoreboard[k].id # k

\* ------------------------------------------------------------ phase timers
\* the phase in which startTimer is called for each timer name
PhaseOfTimer ==
  [themeSelection |-> "theme_select", answering |-> "answering",
   matching |-> "matching", roundEnd |-> "round_end"]

\* C32: a phase timer is pending only while the orchestrator is in the
\* phase that started it, so that no expiry runs in another phase
C32_TimerOnlyInItsPhase ==
  \A timerName \in timers : gs.phase = PhaseOfTimer[timerName]

\* -------------------------------------------------------- the theme provider
\* C33: when the pending provider call resolves after the theme of the
\* round has been selected, its result is discarded: themes is not
\* overwritten and no themeSelection timer is started
C33_LateProviderDiscarded ==
  [][(pending'.provider < pending.provider /\ gs.selectedTheme # NoTheme) =>
       /\ gs'.themes = gs.themes
       /\ "themeSelection" \notin timers']_vars

\* every timer that is pending fires and every delay runs out; the theme
\* provider may take for ever
FairSilent ==
  /\ \A timerName \in TimerNames :
       WF_vars(\E rank \in Ranks : TimerExpired(timerName, rank, MaxIdleRound))
  /\ WF_vars(RevealDelay)
  /\ WF_vars(SuddenDeathDelay)

\* ---- the game of SpecIdle with a theme provider that need not answer
SpecSilent == Init /\ [][NextIdle]_vars /\ FairSilent

\* C34: the themeSelection timer runs while the provider call is pending,
\* so theme_select is eventually left even if the provider never resolves
\* and no client sends a command
C34_ThemeSelectExited ==
  (gs.phase = "theme_select") ~> (gs.phase # "theme_select")

\* ---------------------------------------------------------- timer schedules
\* ---- round one played by the timers, with a host who may select the theme
\* and may send start_game once more in any phase
NextAgain ==
  \/ Len(gs.players) < MinPlayers /\ PlayerJoin(AName, FirstCode)
  \/ \E c \in HostSocks : StartGame(c, MaxStrays)
  \/ ProviderDone(TRUE)
  \/ \E c \in HostSocks : ThemeSelect(c, Generated[1])
  \/ \E timerName \in TimerNames, rank \in Ranks : TimerExpired(timerName, rank, MaxRound)
  \/ RevealDelay

SpecAgain == Init /\ [][NextAgain]_vars

\* the schedules of timerName in the state s: expiries and ticks
Live(s, timerName) == <<s.e.timeout[timerName], s.e.interval[timerName]>>

\* C35: for every timer name at most one tick schedule and at most one
\* expiry schedule are pending, and they are pending exactly while the name
\* has its handles; startTimer leaves exactly one of each whatever was
\* pending, clearTimer leaves none and changes nothing when no timer of
\* that name is active, and once an expiry has fired (or was cancelled)
\* neither schedule of that name remains, so that the callback cannot run a
\* second time
C35_OneScheduleEach ==
  /\ [](\A timerName \in TimerNames :
          /\ Live(St, timerName) = IF timerName \in timers THEN <<1, 1>> ELSE <<0, 0>>
          /\ Live(startTimer(St, timerName), timerName) = <<1, 1>>
          /\ timerName \in startTimer(St, timerName).t
          /\ Live(clearTimer(St, timerName), timerName) = <<0, 0>>
          /\ timerName \notin clearTimer(St, timerName).t
          /\ timerName \notin timers => clearTimer(St, timerName) = St
          /\ \A other \in TimerNames \ {timerName} :
               /\ Live(startTimer(St, timerName), other) = Live(St, other)
               /\ Live(clearTimer(St, timerName), other) = Live(St, other))
  /\ [][\A timerName \in TimerNames :
          \* the expiry schedule has fired or was cancelled
          schedules'.timeout[timerName] < schedules.timeout[timerName] =>
            /\ schedules'.timeout[timerName] = 0
            /\ schedules'.interval[timerName] = 0
            /\ timerName \notin timers']_vars

\* the game was started again while the answering timer was pending, and
\* is about to start that timer anew
C35_Witness ==
  /\ out.started = 2
  /\ gs.phase = "theme_select"
  /\ "answering" \in timers

\* ------------------------------------------------------- the host's credit
\* C36: the host's score is credited once in a round: a score goes up only
\* in the step from matching to reveal (the matching phase is left by that
\* step, so that it cannot be taken twice), whether the step is taken by the
\* host's submission, by the matching timer or by the grace-period fallback
C36_CreditedOnce ==
  [][(\E i \in 1..Len(gs.players) :
        i <= Len(gs'.players) /\ gs'.players[i].score > gs.players[i].score) =>
       gs.phase = "matching" /\ gs'.phase = "reveal"]_vars

\* ---------------------------------------------------------- the grace timer
\* ---- two rounds played by the timers and by next_round, in which the host
\* of a round may lose the connection
NextGrace ==
  \/ Len(gs.players) < MinPlayers /\ PlayerJoin(AName, FirstCode)
  \/ \E c \in HostSocks : gs.phase = "lobby" /\ StartGame(c, 0)
  \/ ProviderDone(TRUE)
  \/ \E timerName \in TimerNames, rank \in Ranks :
       TimerExpired(timerName, rank, MaxStrayRound)
  \/ RevealDelay
  \/ gs.phase = "round_end" /\ NextRound(MaxStrayRound, 0)
  \/ \E c \in HostSocks : gs.phase \in {"theme_select", "matching"} /\ Drop(c)
  \/ \E c \in 1..MaxConns : Disconnect(c)
  \/ \E pid \in 1..MaxPlayers : GraceExpired(pid)

SpecGrace == Init /\ [][NextGrace]_vars

\* C37: the expiry of a grace timer advances the phase only if the player
\* whose disconnect started the timer is the host of the current phase
C37_GraceOnlyForActingHost ==
  [][\A pid \in disconnectTimers :
       (pid \notin disconnectTimers' /\ gs'.phase # gs.phase) =>
         gs.players[pid].isHost]_vars

\* ------------------------------------------------------ the host's points
\* C38: whatever list of matches the host submits, the points credited to
\* the host in a round are at most the number of non-host players plus the
\* bonus of a perfect round
C38_HostPointsBounded ==
  [][\A i \in 1..Len(gs.players) :
       i <= Len(gs'.players) =>
         gs'.players[i].score - gs.players[i].score
           <= Len(NonHostIds(gs.players)) + PerfectRound]_vars

\* ------------------------------------------------------- the session tokens
\* ---- the lobby and the first theme_select, with the display, a host phone
\* asked for by any socket, and players who lose their connection and
\* reconnect
NextTokens ==
  \/ DisplayJoin
  \/ Len(gs.players) < MinPlayers /\ PlayerJoin(AName, FirstCode)
  \/ \E c \in HostSocks : gs.phase = "lobby" /\ StartGame(c, 0)
  \/ ProviderDone(TRUE)
  \/ \E c \in Senders, playerId \in 1..MaxPlayers : HostPhoneJoin(c, playerId)
  \/ \E c \in Open : Drop(c)
  \/ \E c \in 1..MaxConns : Disconnect(c)
  \/ \E playerId \in PlayerIdInputs, sessionToken \in TokenInputs : Reconnect(playerId, sessionToken)

SpecTokens == Init /\ [][NextTokens]_vars

\* C39: the session token of a player is sent only to a connection that
\* joined or reconnected as that player, never to another client or to the
\* display
C39_TokenOnlyToOwner ==
  \A sent \in out.tokens :
    sent[1] \in 1..MaxConns /\ conn[sent[1]].playerId = sent[2]

\* ------------------------------------------------------- a late disconnect
\* connections are opened in the order of their numbers: the connection on
\* which player pid joined or reconnected last
LatestOf(pid) ==
  CHOOSE b \in 1..MaxConns :
    /\ conn[b].playerId = pid
    /\ \A a \in (b + 1)..MaxConns : conn[a].playerId # pid

\* c is a previous connection of player pid, who has since reconnected on
\* another connection, which is open
ReconnectedElsewhere(c, pid) ==
  /\ pid # 0
  /\ LatestOf(pid) # c
  /\ conn[LatestOf(pid)].state = "open"

\* C40: once a player has reconnected on a new connection, the disconnect
\* of the player's previous connection changes nothing: the player stays
\* connected and no grace timer is started
C40_LateDisconnectIgnored ==
  /\ [](\A c \in 1..MaxConns :
          (conn[c].state = "lost" /\ ReconnectedElsewhere(c, conn[c].playerId)) =>
            /\ gs.players[conn[c].playerId].isConnected
            /\ handleDisconnect(St, c) = St)
  /\ [][\A c \in 1..MaxConns :
          (/\ conn[c].state = "lost"
           /\ conn'[c].state = "closed"
           /\ ReconnectedElsewhere(c, conn[c].playerId)) =>
            /\ gs'.players[conn[c].playerId].isConnected
            /\ disconnectTimers' = disconnectTimers
            /\ gs' = gs]_vars

\* the host has reconnected in theme_select or matching, and the disconnect
\* of the host's old connection has arrived since
C40_Witness ==
  \E c \in 1..MaxConns :
    /\ conn[c].state = "closed"
    /\ ReconnectedElsewhere(c, conn[c].playerId)
    /\ gs.players[conn[c].playerId].isHost
    /\ gs.players[conn[c].playerId].isConnected
    /\ gs.phase \in {"theme_select", "matching"}
    /\ disconnectTimers = {}

====
